---------------------------- MODULE Spec2Model ----------------------------
(***************************************************************************)
(* Archey (src/archey.py): identification of the operating system, the     *)
(* collector loop, and the ANSI-aware layout of logo and data lines.       *)
(*                                                                         *)
(* A Python string is a sequence of one-character strings; the escape      *)
(* character \x1b is the single character ESC.                             *)
(***************************************************************************)
EXTENDS Integers, Sequences, FiniteSets, TLC

VARIABLES
    env,          \* the host: installed commands, their output, files, variables
    pc,           \* the position of the main program
    Ignore,       \* the raw identity string IdentifyOS returned
    DistroID,     \* the global DistroID
    DistroTitle,  \* the global DistroTitle
    locals,       \* IdentifyOS's locals after the base cascade, and the commands it used
    ansi,         \* a call of a layout function: its input, argument and result
    GlobalTerminal,    \* the cached terminal name
    result,            \* the data lines
    LogFile,           \* the performance log, line by line
    TerminalColumns,   \* the global TerminalColumns
    attr,              \* the index in display of the attribute the loop is at
    LogoOutputList,    \* the logo lines of the merge
    ArcheyOutputList,  \* the merged lines
    stdout             \* the banner as printed

vars == <<env, pc, Ignore, DistroID, DistroTitle, locals, ansi, GlobalTerminal, result,
          LogFile, TerminalColumns, attr, LogoOutputList, ArcheyOutputList, stdout>>

(***************************************************************************)
(* Bounds of the model.                                                    *)
(***************************************************************************)
MaxTokens == 3
MaxMinLength == 3
MaxColumns == 3
MaxOutput == 3

(***************************************************************************)
(* Python string primitives.                                               *)
(***************************************************************************)
Min(a, b) == IF a < b THEN a ELSE b
Max(a, b) == IF a > b THEN a ELSE b

Rep(c, n) == [i \in 1..n |-> c]

\* The position a slice bound i denotes in a string of length n.
SliceBound(i, n) == IF i < 0 THEN Max(n + i, 0) ELSE Min(i, n)

\* s[:b]
SliceTo(s, b) == SubSeq(s, 1, SliceBound(b, Len(s)))

\* s[a:]
SliceFrom(s, a) == SubSeq(s, SliceBound(a, Len(s)) + 1, Len(s))

\* s.ljust(width)
ljust(s, width) == IF width <= Len(s) THEN s ELSE s \o Rep(" ", width - Len(s))

RECURSIVE Flatten(_)
Flatten(ss) == IF ss = <<>> THEN <<>> ELSE Head(ss) \o Flatten(Tail(ss))

(***************************************************************************)
(* More Python string primitives.                                          *)
(***************************************************************************)
\* s.find(sub, start): the lowest 0-based index >= start where sub occurs, -1 if none.
find(s, sub, start) ==
    LET found == {k \in start..(Len(s) - Len(sub)) : SubSeq(s, k + 1, k + Len(sub)) = sub}
    IN  IF found = {} THEN -1 ELSE CHOOSE k \in found : \A j \in found : k <= j

\* sub in s
Contains(s, sub) == find(s, sub, 0) # -1

lowercase == <<"a", "b", "c", "d", "e", "f", "g", "h", "i", "j", "k", "l", "m",
               "n", "o", "p", "q", "r", "s", "t", "u", "v", "w", "x", "y", "z">>

uppercase == <<"A", "B", "C", "D", "E", "F", "G", "H", "I", "J", "K", "L", "M",
               "N", "O", "P", "Q", "R", "S", "T", "U", "V", "W", "X", "Y", "Z">>

upper(c) == IF \E i \in 1..26 : lowercase[i] = c
            THEN uppercase[CHOOSE i \in 1..26 : lowercase[i] = c] ELSE c

lower(c) == IF \E i \in 1..26 : uppercase[i] = c
            THEN lowercase[CHOOSE i \in 1..26 : uppercase[i] = c] ELSE c

\* s.capitalize(): first character upper case, all the others lower case.
capitalize(s) == [i \in 1..Len(s) |-> IF i = 1 THEN upper(s[i]) ELSE lower(s[i])]

(***************************************************************************)
(* The string literals of the source, each a sequence of characters.       *)
(***************************************************************************)
Literal ==
    \* line 1043, IdentifyOS
    [ Darwin |-> <<"D","a","r","w","i","n">>,
    \* line 1060, IdentifyOS
      Linux |-> <<"L","i","n","u","x">>,
    \* line 1060, IdentifyOS
      FreeBSD |-> <<"F","r","e","e","B","S","D">>,
    \* line 263, DistroTitle
      Unknown |-> <<"U","n","k","n","o","w","n">>,
    \* lines 1073-1094, IdentifyOS
      Undetermined |-> <<"U","n","d","e","t","e","r","m","i","n","e","d">>,
    \* line 1045, IdentifyOS
      MacOS |-> <<"M","a","c","O","S">>,
    \* lines 1104-1106, IdentifyOS
      Ubuntu |-> <<"U","b","u","n","t","u">>,
    \* lines 1104-1106, IdentifyOS
      Kubuntu |-> <<"K","u","b","u","n","t","u">>,
    \* lines 1109-1114, IdentifyOS
      Debian |-> <<"D","e","b","i","a","n">>,
    \* lines 1109-1114, IdentifyOS
      Raspbian |-> <<"R","a","s","p","b","i","a","n">>,
    \* line 1025, de_display
      KDE |-> <<"K","D","E">>,
    \* line 1027, de_display
      GNOME |-> <<"G","N","O","M","E">>,
    \* line 936, DesktopEvironmentID
      None |-> <<"N","o","n","e">>,
    \* line 939, DesktopEvironmentID
      Aqua |-> <<"A","q","u","a">>,
    \* lines 1109-1114, IdentifyOS
      RaspberryPi |-> <<"R","a","s","p","b","e","r","r","y"," ","P","i">>,
    \* line 1598, pimodel_display
      Raspberry |-> <<"R","a","s","p","b","e","r","r","y">>,
    \* line 1057, IdentifyOS
      MacOSVersionPrefix |-> <<"M","a","c"," ","O","S"," ","V","e","r","s","i","o","n"," ">>,
    \* line 820, user_display
      key_User |-> <<"U","s","e","r">>,
    \* line 830, hostname_display
      key_Hostname |-> <<"H","o","s","t","n","a","m","e">>,
    \* line 806, distro_display
      key_OS |-> <<"O","S">>,
    \* line 1599, pimodel_display
      key_PiModel |-> <<"P","i"," ","M","o","d","e","l">>,
    \* line 815, kernel_display
      key_Kernel |-> <<"K","e","r","n","e","l">>,
    \* line 929, uptime_display
      key_Uptime |-> <<"U","p","t","i","m","e">>,
    \* line 1181, wm_display
      key_WindowManager |-> <<"W","i","n","d","o","w"," ","M","a","n","a","g","e","r">>,
    \* line 1031, de_display
      key_DesktopEnvironment |-> <<"D","e","s","k","t","o","p"," ","E","n","v","i","r","o","n","m","e","n","t">>,
    \* line 1201, sh_display
      key_Shell |-> <<"S","h","e","l","l">>,
    \* line 1241, term_display
      key_Terminal |-> <<"T","e","r","m","i","n","a","l">>,
    \* lines 1276-1306, packages_display
      key_Packages |-> <<"P","a","c","k","a","g","e","s">>,
    \* line 1473, resolution_display
      key_Resolution |-> <<"R","e","s","o","l","u","t","i","o","n">>,
    \* line 1585, gpu_display
      key_GPU |-> <<"G","P","U">>,
    \* line 892, cpu_display
      key_CPU |-> <<"C","P","U">>,
    \* line 801, ram_display
      key_RAM |-> <<"R","A","M">>,
    \* line 1407, disk_display
      key_Disk |-> <<"D","i","s","k">>,
    \* line 1139, wm_display
      MainConsole |-> <<"M","a","i","n"," ","C","o","n","s","o","l","e">>,
    \* line 1142, wm_display
      SSHConsole |-> <<"S","S","H"," ","C","o","n","s","o","l","e">>,
    \* line 1145, wm_display
      Quartz |-> <<"Q","u","a","r","t","z"," ","C","o","m","p","o","s","i","t","o","r">>,
    \* line 1151, wm_display
      NoXprop |-> <<"U","n","d","e","t","e","r","m","i","n","e","d"," ","(","x","p","r","o","p"," ","n","o","t"," ","i","n","s","t","a","l","l","e","d",")">>,
    \* line 887, cpu_display
      NoLscpu |-> <<"U","n","d","e","t","e","r","m","i","n","e","d"," ","(","l","s","c","p","u"," ","n","o","t"," ","a","v","a","i","l","a","b","l","e",")">>,
    \* line 1348, disk_display
      NoDisks |-> <<"N","o"," ","d","i","s","k","s"," ","f","o","u","n","d">>,
    \* line 1141, wm_display
      sshd |-> <<"s","s","h","d">>,
    \* line 264, GlobalTerminal
      Unset |-> <<"U","n","s","e","t">>,
    \* line 1138, wm_display
      dev_tty1 |-> <<"/","d","e","v","/","t","t","y","1">>,
    \* line 1138, wm_display
      dev_ttyv0 |-> <<"/","d","e","v","/","t","t","y","v","0">>,
    \* line 1190, sh_display
      bash |-> <<"b","a","s","h">>,
    \* line 828, hostname_display
      local |-> <<"l","o","c","a","l">> ]

(***************************************************************************)
(* Values the program reads from its environment: command output, file     *)
(* content, environment variables and arguments.                           *)
(***************************************************************************)
Sample ==
    \* line 1038, IdentifyOS (uname -s)
    [ OpenBSD |-> <<"O","p","e","n","B","S","D">>,
    \* line 1098, IdentifyOS (uname -m)
      x86_64 |-> <<"x","8","6","_","6","4">>,
    \* lines 1069-1072, IdentifyOS (OSRelease['ID'])
      os_ubuntu |-> <<"u","b","u","n","t","u">>,
    \* lines 1069-1072, IdentifyOS (OSRelease['ID'])
      os_debian |-> <<"d","e","b","i","a","n">>,
    \* lines 1069-1072, IdentifyOS (OSRelease['ID'])
      os_manjaro_arm |-> <<"m","a","n","j","a","r","o","-","a","r","m">>,
    \* lines 1069-1072, IdentifyOS (OSRelease['ID'])
      os_nixos |-> <<"n","i","x","o","s">>,
    \* lines 1076-1077, IdentifyOS (OSRelease['PRETTY_NAME'])
      pretty_Ubuntu |-> <<"U","b","u","n","t","u"," ","2","2",".","0","4",".","3"," ","L","T","S">>,
    \* lines 1076-1077, IdentifyOS (OSRelease['PRETTY_NAME'])
      pretty_Debian |-> <<"D","e","b","i","a","n"," ","G","N","U","/","L","i","n","u","x"," ","1","2">>,
    \* lines 1104-1106, IdentifyOS
      pretty_Kubuntu_x86_64 |-> <<"K","u","b","u","n","t","u"," ","2","2",".","0","4",".","3"," ","L","T","S"," ","x","8","6","_","6","4">>,
    \* lines 1110-1111, IdentifyOS (ModelInfo)
      model_Pi4 |-> <<"R","a","s","p","b","e","r","r","y"," ","P","i"," ","4"," ","M","o","d","e","l"," ","B">>,
    \* lines 1110-1111, IdentifyOS (ModelInfo)
      model_Other |-> <<"P","i","n","e","6","4"," ","R","o","c","k","6","4">>,
    \* line 1050, IdentifyOS (ProductUserVisibleVersion)
      v_10_15_7 |-> <<"1","0",".","1","5",".","7">>,
    \* line 1050, IdentifyOS (ProductUserVisibleVersion)
      v_11_0 |-> <<"1","1",".","0">>,
    \* line 1050, IdentifyOS (ProductUserVisibleVersion)
      v_11_0_1 |-> <<"1","1",".","0",".","1">>,
    \* line 1050, IdentifyOS (ProductUserVisibleVersion)
      v_12_6_1 |-> <<"1","2",".","6",".","1">>,
    \* line 1050, IdentifyOS (ProductUserVisibleVersion)
      v_10_4 |-> <<"1","0",".","4">>,
    \* lines 1054-1055, IdentifyOS
      pretty_Catalina |-> <<"m","a","c","O","S"," ","C","a","t","a","l","i","n","a"," ","(","1","0",".","1","5",".","7",")">>,
    \* lines 1132-1133, wm_display (tty)
      dev_pts0 |-> <<"/","d","e","v","/","p","t","s","/","0">>,
    \* line 1187, sh_display (SHELL)
      bin_bash |-> <<"/","b","i","n","/","b","a","s","h">>,
    \* line 1187, sh_display (SHELL)
      bin_zsh |-> <<"/","b","i","n","/","z","s","h">>,
    \* lines 1069-1072, IdentifyOS (OSRelease['ID'])
      os_manjaro |-> <<"m","a","n","j","a","r","o">>,
    \* lines 1069-1072, IdentifyOS (OSRelease['ID'])
      os_freebsd |-> <<"f","r","e","e","b","s","d">>,
    \* lines 1069-1072, IdentifyOS (OSRelease['ID'])
      os_arch |-> <<"a","r","c","h">>,
    \* lines 1675-1676, main program (sys.argv[1])
      Arch |-> <<"A","r","c","h">>,
    \* lines 1675-1676, main program (sys.argv[1])
      Bogus |-> <<"B","o","g","u","s">>,
    \* line 820, user_display (getuser)
      user |-> <<"a","l","i","c","e">>,
    \* line 825, hostname_display (uname -n)
      host_local |-> <<"m","y","b","o","x",".","l","o","c","a","l">>,
    \* line 825, hostname_display (uname -n)
      host_plain |-> <<"m","y","l","o","c","a","l","h","o","s","t">>,
    \* line 814, kernel_display (uname -sr)
      kernel_linux |-> <<"L","i","n","u","x"," ","6",".","1",".","0">>,
    \* line 814, kernel_display (uname -sr)
      kernel_darwin |-> <<"D","a","r","w","i","n"," ","1","9",".","6",".","0">>,
    \* line 814, kernel_display (uname -sr)
      kernel_freebsd |-> <<"F","r","e","e","B","S","D"," ","1","3",".","2">>,
    \* lines 895-929, uptime_display
      uptime |-> <<"0"," ","d","a","y","s",","," ","2"," ","h","o","u","r","s",","," ","5"," ","m","i","n","u","t","e","s",".">>,
    \* lines 1190-1199, sh_display
      bash_version |-> <<"G","N","U"," ","b","a","s","h",","," ","v","e","r","s","i","o","n"," ","5",".","1",".","1","6">>,
    \* lines 1208-1212, IdentifyTerminal
      konsole |-> <<"k","o","n","s","o","l","e">>,
    \* lines 1208-1212, IdentifyTerminal
      pid |-> <<"8","1","2">>,
    \* lines 1257-1276, packages_display
      packages |-> <<"1","8","0","1"," ","(","d","p","k","g",")">>,
    \* lines 1278-1286, packages_display
      count |-> <<"1","2","0","4">>,
    \* lines 1288-1306, packages_display
      brew |-> <<"8","5"," ","(","b","r","e","w",")">>,
    \* lines 1410-1473, resolution_display
      resolution |-> <<"1","9","2","0","x","1","0","8","0",","," ","6","0"," ","H","z">>,
    \* lines 1550-1585, gpu_display
      gpu |-> <<"I","n","t","e","l"," ","U","H","D"," ","G","r","a","p","h","i","c","s"," ","6","2","0">>,
    \* lines 833-892, cpu_display
      cpu |-> <<"I","n","t","e","l"," ","C","o","r","e"," ","i","7"," ","@"," ","1",".","8"," ","G","H","z">>,
    \* lines 753-801, ram_display
      ram_used |-> <<"2","0","4","8"," ","M","B"," ">>,
    \* lines 753-801, ram_display
      ram_total |-> <<"/"," ","7","8","2","1"," ","M","B">>,
    \* lines 1327-1407, disk_display
      disk_used |-> <<"4","1","G">>,
    \* lines 1327-1407, disk_display
      disk_rest |-> <<" ","/"," ","2","3","4","G"," ","(","1","8","%",")">>,
    \* lines 1147-1179, wm_display
      wm |-> <<"K","W","i","n">> ]

(***************************************************************************)
(* The Distro enumeration and the static tables.                           *)
(***************************************************************************)
Distro == {"Arch", "BunsenLabs", "CrunchBang", "CentOS", "Debian", "Elementary",
           "Fedora", "FreeBSD", "Kubuntu", "Linuxmint", "MacOS", "Manjaro",
           "ManjaroARM", "Neon", "PopOS", "Raspbian", "Ubuntu", "Zorin", "Unknown"}

DistroEnumDict ==
    (<<"A","r","c","h">> :> "Arch") @@
    (<<"B","u","n","s","e","n","l","a","b","s">> :> "BunsenLabs") @@
    (<<"C","e","n","t","o","s">> :> "CentOS") @@
    (<<"C","r","u","n","c","h","B","a","n","g">> :> "CrunchBang") @@
    (<<"D","e","b","i","a","n">> :> "Debian") @@
    (<<"E","l","e","m","e","n","t","a","r","y">> :> "Elementary") @@
    (<<"F","e","d","o","r","a">> :> "Fedora") @@
    (<<"F","r","e","e","b","s","d">> :> "FreeBSD") @@
    (<<"K","u","b","u","n","t","u">> :> "Kubuntu") @@
    (<<"L","i","n","u","x","m","i","n","t">> :> "Linuxmint") @@
    (<<"M","a","c","O","S">> :> "MacOS") @@
    (<<"M","a","n","j","a","r","o">> :> "Manjaro") @@
    (<<"M","a","n","j","a","r","o","-","A","R","M">> :> "ManjaroARM") @@
    (<<"N","e","o","n">> :> "Neon") @@
    (<<"P","o","p">> :> "PopOS") @@
    (<<"R","a","s","p","b","i","a","n">> :> "Raspbian") @@
    (<<"U","b","u","n","t","u">> :> "Ubuntu") @@
    (<<"Z","o","r","i","n">> :> "Zorin")

MacOSVersion_dict ==
    (<<"1","0",".","4">> :>
        <<"M","a","c"," ","O","S"," ","X"," ","T","i","g","e","r">>) @@
    (<<"1","0",".","5">> :>
        <<"M","a","c"," ","O","S"," ","X"," ","L","e","o","p","a","r","d">>) @@
    (<<"1","0",".","6">> :>
        <<"M","a","c"," ","O","S"," ","X"," ","S","n","o","w"," ","L","e","o","p","a","r","d">>) @@
    (<<"1","0",".","7">> :>
        <<"M","a","c"," ","O","S"," ","X"," ","L","i","o","n">>) @@
    (<<"1","0",".","8">> :>
        <<"O","S"," ","X"," ","M","o","u","n","t","a","i","n"," ","L","i","o","n">>) @@
    (<<"1","0",".","9">> :>
        <<"O","S"," ","X"," ","M","a","v","e","r","i","c","k","s">>) @@
    (<<"1","0",".","1","0">> :>
        <<"O","S"," ","X"," ","Y","o","s","e","m","i","t","e">>) @@
    (<<"1","0",".","1","1">> :>
        <<"O","S"," ","X"," ","E","l"," ","C","a","p","i","t","a","n">>) @@
    (<<"1","0",".","1","2">> :>
        <<"m","a","c","O","S"," ","S","i","e","r","r","a">>) @@
    (<<"1","0",".","1","3">> :>
        <<"m","a","c","O","S"," ","H","i","g","h"," ","S","i","e","r","r","a">>) @@
    (<<"1","0",".","1","4">> :>
        <<"m","a","c","O","S"," ","M","o","j","a","v","e">>) @@
    (<<"1","0",".","1","5">> :>
        <<"m","a","c","O","S"," ","C","a","t","a","l","i","n","a">>) @@
    (<<"1","0",".","1","6">> :>
        <<"m","a","c","O","S"," ","B","i","g"," ","S","u","r">>) @@
    (<<"1","1",".","0">> :>
        <<"m","a","c","O","S"," ","B","i","g"," ","S","u","r">>)

DesktopEnvironmentProcessDict ==
    ("cinnamon" :> <<"C","i","n","n","a","m","o","n">>) @@
    ("dde-dock" :> <<"D","e","e","p","i","n">>) @@
    ("fur-box-session" :> <<"F","u","r"," ","B","o","x">>) @@
    ("gnome-session" :> Literal.GNOME) @@
    ("gnome-shell" :> Literal.GNOME) @@
    ("ksmserver" :> Literal.KDE) @@
    ("lxqt-session" :> <<"L","X","Q","t">>) @@
    ("lxsession" :> <<"L","X","D","E">>) @@
    ("mate-session" :> <<"M","A","T","E">>) @@
    ("xfce4-session" :> <<"X","f","c","e">>)

DesktopEnvironmentShellVarDict ==
    ("X-Cinnamon" :> <<"C","i","n","n","a","m","o","n">>) @@
    ("GNOME" :> Literal.GNOME) @@
    ("pop:GNOME" :> Literal.GNOME) @@
    ("ubuntu:GNOME" :> Literal.GNOME) @@
    ("KDE" :> Literal.KDE) @@
    ("LXDE" :> <<"L","X","D","E">>) @@
    ("MATE" :> <<"M","A","T","E">>) @@
    ("Pantheon" :> <<"P","a","n","t","h","e","o","n">>) @@
    ("unity" :> <<"U","n","i","t","y">>) @@
    ("Unity" :> <<"U","n","i","t","y">>) @@
    ("XFCE" :> <<"X","f","c","e">>)

(***************************************************************************)
(* The command adapter.  e is the host environment; Output is what the     *)
(* command prints when it runs, a sequence of lines.                       *)
(***************************************************************************)
\* An absent file or an unset variable is <<>>, a present one is <<content>>.
Absent == <<>>
Present(content) == <<content>>
Exists(file) == file # Absent
Content(file) == file[1]

CheckCommandInstalled(e, CommandName) == CommandName \in e.installed

\* The first line of the output, "" when the command is not installed.
GetCommandOutput(e, CommandName, Output) ==
    IF CheckCommandInstalled(e, CommandName)
    THEN (IF Output = <<>> THEN <<>> ELSE Output[1])
    ELSE <<>>

\* str.split(sep) for a one-character separator: the pieces between the
\* separators, one more piece than there are separators.
RECURSIVE split(_, _)
split(s, sep) ==
    IF \A i \in 1..Len(s) : s[i] # sep THEN <<s>>
    ELSE LET i == CHOOSE j \in 1..Len(s) :
                      s[j] = sep /\ \A k \in 1..(j - 1) : s[k] # sep
         IN  <<SubSeq(s, 1, i - 1)>> \o split(SubSeq(s, i + 1, Len(s)), sep)

\* The pieces of the output split at the newlines, [] when the command is
\* not installed.
GetCommandOutputList(e, CommandName, Output) ==
    IF CheckCommandInstalled(e, CommandName) THEN Output ELSE <<>>

\* One less than the number of pieces, 0 when the command is not installed.
CountCommandOutput(e, CommandName, Output) ==
    IF CheckCommandInstalled(e, CommandName) THEN Len(Output) - 1 ELSE 0

(***************************************************************************)
(* DesktopEvironmentID: the desktop environment, from XDG_CURRENT_DESKTOP  *)
(* or else from the process list (the last matching process wins).         *)
(***************************************************************************)
RECURSIVE ScanProcesses(_, _)
ScanProcesses(procs, DesktopEnvironment) ==
    IF procs = <<>> THEN DesktopEnvironment
    ELSE ScanProcesses(Tail(procs),
                       IF Head(procs) \in DOMAIN DesktopEnvironmentProcessDict
                       THEN DesktopEnvironmentProcessDict[Head(procs)]
                       ELSE DesktopEnvironment)

DesktopEvironmentID(e, CurrentDistroID) ==
    IF CurrentDistroID = "MacOS" THEN Literal.Aqua
    ELSE IF Exists(e.XDG_CURRENT_DESKTOP)
            /\ Content(e.XDG_CURRENT_DESKTOP) \in DOMAIN DesktopEnvironmentShellVarDict
         THEN DesktopEnvironmentShellVarDict[Content(e.XDG_CURRENT_DESKTOP)]
         ELSE ScanProcesses(e.processes, Literal.None)

(***************************************************************************)
(* IdentifyOS, branch by branch.  Each branch yields the locals            *)
(* OSReleaseID and OSReleasePretty, whether it raised, and the commands    *)
(* it looked for (checked) and ran (launched).                             *)
(***************************************************************************)
\* lines 1037-1040
DetectBaseSystem(e) ==
    IF CheckCommandInstalled(e, "uname")
    THEN GetCommandOutput(e, "uname", e.uname_s)
    ELSE Literal.Unknown

\* lines 1052-1053: the version up to its second dot
BaseOSXVersion(OSXVersion) ==
    LET MinorVersionLocation == find(OSXVersion, <<".">>, find(OSXVersion, <<".">>, 0) + 1)
    IN  SliceTo(OSXVersion, MinorVersionLocation)

\* lines 1043-1058
DarwinBranch(e) ==
    IF ~Exists(e.SystemVersion)
    THEN [raised |-> TRUE, OSReleaseID |-> Literal.MacOS, OSReleasePretty |-> <<>>,
          checked |-> {}, launched |-> {}]
    ELSE LET OSXVersion == Content(e.SystemVersion).ProductUserVisibleVersion
             Base == BaseOSXVersion(OSXVersion)
         IN  [raised |-> FALSE,
              OSReleaseID |-> Literal.MacOS,
              OSReleasePretty |->
                  IF Base \in DOMAIN MacOSVersion_dict
                  THEN MacOSVersion_dict[Base] \o <<" ", "(">> \o OSXVersion \o <<")">>
                  ELSE Literal.MacOSVersionPrefix \o OSXVersion,
              checked |-> {}, launched |-> {}]

LinuxBranchWrongLsbFirst(e) ==
    IF CheckCommandInstalled(e, "lsb_release")
    THEN [raised |-> FALSE,
          OSReleaseID |-> GetCommandOutput(e, "lsb_release", e.lsb_is),
          OSReleasePretty |-> GetCommandOutput(e, "lsb_release", e.lsb_ds),
          checked |-> {"lsb_release"}, launched |-> {"lsb_release"}]
    ELSE IF Exists(e.os_release)
    THEN LET OSRelease == Content(e.os_release)
         IN  [raised |-> FALSE,
              OSReleaseID |-> IF Exists(OSRelease.ID)
                              THEN capitalize(Content(OSRelease.ID))
                              ELSE Literal.Undetermined,
              OSReleasePretty |-> IF Exists(OSRelease.PRETTY_NAME)
                                  THEN Content(OSRelease.PRETTY_NAME)
                                  ELSE Literal.Undetermined,
              checked |-> {"lsb_release"}, launched |-> {}]
    ELSE [raised |-> FALSE, OSReleaseID |-> Literal.Undetermined,
          OSReleasePretty |-> Literal.Undetermined,
          checked |-> {"lsb_release"}, launched |-> {}]

\* lines 1060-1090
LinuxBranch(e) ==
    IF Exists(e.os_release)
    THEN LET OSRelease == Content(e.os_release)
         IN  [raised |-> FALSE,
              OSReleaseID |-> IF Exists(OSRelease.ID)
                              THEN capitalize(Content(OSRelease.ID))
                              ELSE Literal.Undetermined,
              OSReleasePretty |-> IF Exists(OSRelease.PRETTY_NAME)
                                  THEN Content(OSRelease.PRETTY_NAME)
                                  ELSE Literal.Undetermined,
              checked |-> {}, launched |-> {}]
    ELSE IF CheckCommandInstalled(e, "lsb_release")
    THEN [raised |-> FALSE,
          OSReleaseID |-> GetCommandOutput(e, "lsb_release", e.lsb_is),
          OSReleasePretty |-> GetCommandOutput(e, "lsb_release", e.lsb_ds),
          checked |-> {"lsb_release"}, launched |-> {"lsb_release"}]
    ELSE [raised |-> FALSE, OSReleaseID |-> Literal.Undetermined,
          OSReleasePretty |-> Literal.Undetermined,
          checked |-> {"lsb_release"}, launched |-> {}]

\* lines 1092-1094
OtherBranch(e) ==
    [raised |-> FALSE, OSReleaseID |-> Literal.Undetermined,
     OSReleasePretty |-> Literal.Undetermined, checked |-> {}, launched |-> {}]

\* lines 1036-1094: the base cascade
BaseCascade(e) ==
    LET Base == DetectBaseSystem(e)
        r == IF Base = Literal.Darwin THEN DarwinBranch(e)
             ELSE IF Base \in {Literal.Linux, Literal.FreeBSD} THEN LinuxBranch(e)
             ELSE OtherBranch(e)
    IN  [r EXCEPT !.checked = @ \cup {"uname"},
                  !.launched = @ \cup (IF CheckCommandInstalled(e, "uname")
                                       THEN {"uname"} ELSE {})]

\* lines 1096-1099
AppendArchitecture(e, OSReleasePretty) ==
    IF CheckCommandInstalled(e, "uname")
    THEN OSReleasePretty \o <<" ">> \o GetCommandOutput(e, "uname", e.uname_m)
    ELSE OSReleasePretty

KubuntuPrettyWrongSlice(OSReleasePretty) == <<"K", "u">> \o SliceFrom(OSReleasePretty, 2)

\* line 1106
KubuntuPretty(OSReleasePretty) == <<"K", "u">> \o SliceFrom(OSReleasePretty, 1)

RaspbianPrettyWrongSlice(OSReleasePretty) ==
    <<"R", "a", "s", "p">> \o SliceFrom(OSReleasePretty, 1)

\* line 1114
RaspbianPretty(OSReleasePretty) == <<"R", "a", "s", "p">> \o SliceFrom(OSReleasePretty, 2)

EnumIDWrongDefault(OSReleaseID) ==
    IF OSReleaseID \in DOMAIN DistroEnumDict THEN DistroEnumDict[OSReleaseID] ELSE "Debian"

\* lines 1116-1120
EnumID(OSReleaseID) ==
    IF OSReleaseID \in DOMAIN DistroEnumDict THEN DistroEnumDict[OSReleaseID] ELSE "Unknown"

\* lines 1034-1122.  CurrentDistroID is the global DistroID at the time of
\* the call, which DesktopEvironmentID reads.
IdentifyOS(e, CurrentDistroID) ==
    LET base == BaseCascade(e)
        pretty1 == AppendArchitecture(e, base.OSReleasePretty)
        isKubuntu == base.OSReleaseID = Literal.Ubuntu
                     /\ DesktopEvironmentID(e, CurrentDistroID) = Literal.KDE
        id2 == IF isKubuntu THEN Literal.Kubuntu ELSE base.OSReleaseID
        pretty2 == IF isKubuntu THEN KubuntuPretty(pretty1) ELSE pretty1
        isRaspbian == id2 = Literal.Debian
                      /\ Exists(e.device_tree_model)
                      /\ Contains(Content(e.device_tree_model), Literal.RaspberryPi)
        id3 == IF isRaspbian THEN Literal.Raspbian ELSE id2
        pretty3 == IF isRaspbian THEN RaspbianPretty(pretty2) ELSE pretty2
    IN  IF base.raised
        THEN [raised |-> TRUE, OSReleaseID |-> <<>>, OSEnumID |-> "Unknown",
              OSReleasePretty |-> <<>>, base |-> base]
        ELSE [raised |-> FALSE, OSReleaseID |-> id3, OSEnumID |-> EnumID(id3),
              OSReleasePretty |-> pretty3, base |-> base]

(***************************************************************************)
(* ANSILen: the pyparsing grammar of an escape sequence and the            *)
(* transformString scan that suppresses every match.                       *)
(***************************************************************************)
ESC == "ESC"

nums == {"0", "1", "2", "3", "4", "5", "6", "7", "8", "9"}

alphas == {"a", "b", "c", "d", "e", "f", "g", "h", "i", "j", "k", "l", "m",
           "n", "o", "p", "q", "r", "s", "t", "u", "v", "w", "x", "y", "z",
           "A", "B", "C", "D", "E", "F", "G", "H", "I", "J", "K", "L", "M",
           "N", "O", "P", "Q", "R", "S", "T", "U", "V", "W", "X", "Y", "Z"}

\* Word(nums) at position i: the position after the run of digits (i if none).
RECURSIVE integer(_, _)
integer(s, i) == IF i <= Len(s) /\ s[i] \in nums THEN integer(s, i + 1) ELSE i

\* ZeroOrMore(';' + integer) at position i.
RECURSIVE delimitedTail(_, _)
delimitedTail(s, i) ==
    IF i + 1 <= Len(s) /\ s[i] = ";" /\ s[i + 1] \in nums
    THEN delimitedTail(s, integer(s, i + 1))
    ELSE i

delimitedListWrongTrailingDelimiter(s, i) ==
    IF i <= Len(s) /\ s[i] \in nums
    THEN LET t == delimitedTail(s, integer(s, i))
         IN  IF t <= Len(s) /\ s[t] = ";" THEN t + 1 ELSE t
    ELSE 0

\* delimitedList(integer, ';') at position i: the position after it, 0 if no match.
delimitedList(s, i) ==
    IF i <= Len(s) /\ s[i] \in nums THEN delimitedTail(s, integer(s, i)) ELSE 0

\* Combine(ESC + '[' + Optional(delimitedList) + oneOf(alphas)) at position i:
\* the position after the match, 0 if there is none.  Combine matches its
\* parts adjacent to each other, no white space is skipped.
escapeSeqWrongNoParams(s, i) ==
    IF i + 1 <= Len(s) /\ s[i] = ESC /\ s[i + 1] = "["
    THEN IF i + 2 <= Len(s) /\ s[i + 2] \in alphas THEN i + 3 ELSE 0
    ELSE 0

escapeSeq(s, i) ==
    IF i + 1 <= Len(s) /\ s[i] = ESC /\ s[i + 1] = "["
    THEN LET d == delimitedList(s, i + 2)
             j == IF d = 0 THEN i + 2 ELSE d
         IN  IF j <= Len(s) /\ s[j] \in alphas THEN j + 1 ELSE 0
    ELSE 0

\* Suppress(escapeSeq).transformString(s), from position i on.  An escape
\* sequence can only start at an ESC, so the text between a position where
\* nothing matches and the next ESC is copied in one piece.
RECURSIVE transformString(_, _)
transformString(s, i) ==
    IF i > Len(s) THEN <<>>
    ELSE LET e == escapeSeq(s, i)
             later == {j \in (i + 1)..Len(s) : s[j] = ESC}
             n == IF later = {} THEN Len(s) + 1
                  ELSE CHOOSE j \in later : \A k \in later : j <= k
         IN  IF e # 0 THEN transformString(s, e)
             ELSE SubSeq(s, i, n - 1) \o transformString(s, n)

\* (visible length, number of escape-sequence characters)
ANSILen(ANSIString) ==
    LET NonANSIString == transformString(ANSIString, 1)
    IN  <<Len(NonANSIString), Len(ANSIString) - Len(NonANSIString)>>

ANSIljustWrongNoANSICount(ANSIString, MinLength) == ljust(ANSIString, MinLength)

ANSIljust(ANSIString, MinLength) ==
    LET ANSICount == ANSILen(ANSIString)[2]
    IN  ljust(ANSIString, MinLength + ANSICount)

\* The slice the print loop writes: EachLine[:TerminalColumns+ANSIChars]
TruncatedLine(EachLine, Columns) ==
    LET ANSIChars == ANSILen(EachLine)[2]
    IN  SliceTo(EachLine, Columns + ANSIChars)

(***************************************************************************)
(* Colour sequences (lines 59-72), field labels and sample values.         *)
(***************************************************************************)
clear == <<ESC,"[","0","m">>
redN == <<ESC,"[","0",";","3","1","m">>
greenN == <<ESC,"[","0",";","3","2","m">>
yellowN == <<ESC,"[","0",";","3","3","m">>
blueN == <<ESC,"[","0",";","3","4","m">>
magentaN == <<ESC,"[","0",";","3","5","m">>
cyanN == <<ESC,"[","0",";","3","6","m">>
whiteN == <<ESC,"[","0",";","3","7","m">>
blackB == <<ESC,"[","1",";","3","0","m">>
redB == <<ESC,"[","1",";","3","1","m">>
greenB == <<ESC,"[","1",";","3","2","m">>
yellowB == <<ESC,"[","1",";","3","3","m">>
blueB == <<ESC,"[","1",";","3","4","m">>
cyanB == <<ESC,"[","1",";","3","6","m">>
whiteB == <<ESC,"[","1",";","3","7","m">>
redH == <<ESC,"[","9","1","m">>
greenH == <<ESC,"[","9","2","m">>
yellowH == <<ESC,"[","9","3","m">>
blueH == <<ESC,"[","9","4","m">>
magentaH == <<ESC,"[","9","5","m">>
cyanH == <<ESC,"[","9","6","m">>

LogoWidths ==
    ("Ubuntu" :> <<31, 35, 37, 39, 40, 41, 42, 43, 43, 43, 43, 43, 43, 42, 41, 40, 37, 37, 35, 31>>) @@
    ("Arch" :> <<18, 18, 19, 20, 21, 22, 22, 23, 25, 26, 26, 28, 27, 29, 30, 31, 31, 32>>) @@
    ("Manjaro" :> <<31, 31, 31, 31, 31, 31, 31, 31, 31, 31, 31, 31, 31, 31>>) @@
    ("Debian" :> <<22, 25, 24, 28, 29, 28, 28, 28, 26, 23, 18, 8, 10, 12, 15, 19, 20>>) @@
    ("Fedora" :> <<30, 32, 33, 34, 35, 36, 36, 37, 37, 36, 36, 35, 34, 32, 30, 29, 27>>) @@
    ("CrunchBang" :> <<38, 39, 39, 39, 39, 39, 39, 39, 39, 39, 39, 39, 39, 39, 39, 39>>) @@
    ("BunsenLabs" :> <<11, 11, 12, 13, 14, 15, 16, 17, 17, 17, 18, 18, 17, 17, 17, 16, 15, 14, 13, 11>>) @@
    ("Linuxmint" :> <<33, 36, 37, 38, 38, 38, 38, 38, 38, 38, 38, 38, 38, 38, 38>>) @@
    ("Raspbian" :> <<36, 36, 36, 35, 34, 33, 29, 32, 33, 34, 33, 36, 37, 37, 37, 36, 35, 35, 34, 33, 31, 25, 24>>) @@
    ("Zorin" :> <<34, 35, 36, 0, 0, 40, 41, 42, 42, 42, 41, 40, 0, 0, 36, 35, 34>>) @@
    ("Kubuntu" :> <<30, 34, 36, 38, 40, 41, 41, 42, 42, 42, 42, 42, 42, 41, 40, 39, 38, 36, 34, 31>>) @@
    ("PopOS" :> <<28, 32, 35, 37, 38, 39, 40, 41, 41, 41, 41, 41, 41, 40, 39, 38, 37, 35, 32, 28>>) @@
    ("MacOS" :> <<24, 25, 24, 23, 29, 31, 31, 29, 28, 28, 29, 31, 32, 32, 30, 29, 27>>) @@
    ("Neon" :> <<29, 33, 36, 37, 39, 40, 41, 41, 42, 42, 42, 41, 41, 40, 39, 37, 36, 33, 29>>) @@
    ("Elementary" :> <<28, 31, 33, 35, 36, 37, 37, 37, 37, 37, 37, 37, 36, 35, 33, 31, 28>>) @@
    ("FreeBSD" :> <<24, 25, 25, 25, 25, 26, 26, 26, 25, 24, 23, 23, 27, 24, 24, 32, 31, 22, 22>>) @@
    ("CentOS" :> <<19, 21, 22, 31, 31, 32, 31, 33, 35, 36, 34, 33, 30, 31, 31, 31, 22, 21, 19>>) @@
    ("Tux" :> <<22, 23, 24, 25, 25, 25, 26, 26, 26, 27, 28, 29, 30, 31, 31, 31, 32, 32, 32, 33, 34, 34, 35, 36, 35, 34, 32, 30, 29>>)

LogoColour ==
    ("Arch" :> blueB) @@
    ("BunsenLabs" :> whiteN) @@
    ("CrunchBang" :> whiteN) @@
    ("CentOS" :> yellowB) @@
    ("Debian" :> whiteB) @@
    ("Elementary" :> blueN) @@
    ("Fedora" :> blueN) @@
    ("FreeBSD" :> redB) @@
    ("Kubuntu" :> blueN) @@
    ("Linuxmint" :> whiteB) @@
    ("MacOS" :> greenN) @@
    ("Manjaro" :> greenB) @@
    ("Neon" :> greenN) @@
    ("PopOS" :> cyanB) @@
    ("Raspbian" :> greenB) @@
    ("Ubuntu" :> redB) @@
    ("Zorin" :> blueN) @@
    ("Tux" :> blackB)

\* lines 75-92
displayWrongDuplicateField ==
    <<"user", "hostname", "distro", "pimodel", "kernel", "uptime", "wm",
      "de", "sh", "term", "packages", "resolution", "gpu", "cpu", "user",
      "disk">>

display == <<"user", "hostname", "distro", "pimodel", "kernel", "uptime", "wm",
             "de", "sh", "term", "packages", "resolution", "gpu", "cpu", "ram",
             "disk">>

\* lines 153-172
DistroColourDict ==
    ("Arch" :> blueB) @@ ("BunsenLabs" :> whiteN) @@ ("CentOS" :> blueB) @@
    ("CrunchBang" :> whiteN) @@ ("Debian" :> redB) @@ ("Elementary" :> blueB) @@
    ("Fedora" :> blueB) @@ ("FreeBSD" :> redB) @@ ("Kubuntu" :> cyanB) @@
    ("Linuxmint" :> greenB) @@ ("MacOS" :> yellowN) @@ ("Manjaro" :> greenB) @@
    ("ManjaroARM" :> greenB) @@ ("Neon" :> blueB) @@ ("PopOS" :> cyanB) @@
    ("Raspbian" :> redB) @@ ("Ubuntu" :> redB) @@ ("Zorin" :> cyanB)

(***************************************************************************)
(* DefineDistroLogo.  Each logo keeps its number of lines and the visible  *)
(* width of every line; the art of a line is one leading colour sequence   *)
(* followed by that many glyphs.                                           *)
(***************************************************************************)
LogoBranch(LogoID) ==
    IF LogoID \in {"Manjaro", "ManjaroARM"} THEN "Manjaro"
    ELSE IF LogoID \in {"Ubuntu", "Arch", "Debian", "Fedora", "CrunchBang", "BunsenLabs",
                        "Linuxmint", "Raspbian", "Zorin", "Kubuntu", "PopOS", "MacOS",
                        "Neon", "Elementary", "FreeBSD", "CentOS"} THEN LogoID
    ELSE "Tux"

DefineDistroLogo(LogoID) ==
    LET b == LogoBranch(LogoID)
    IN  [i \in 1..Len(LogoWidths[b]) |-> LogoColour[b] \o Rep("#", LogoWidths[b][i])]

(***************************************************************************)
(* output(key, value): the line appended to result.                        *)
(***************************************************************************)
outputWrongDefaultColour(CurrentDistroID, key, value) ==
    LET DistroColour == IF CurrentDistroID \in DOMAIN DistroColourDict
                        THEN DistroColourDict[CurrentDistroID] ELSE clear
    IN  DistroColour \o key \o <<":">> \o clear \o <<" ">> \o value

output(CurrentDistroID, key, value) ==
    LET DistroColour == IF CurrentDistroID \in DOMAIN DistroColourDict
                        THEN DistroColourDict[CurrentDistroID] ELSE redB
    IN  DistroColour \o key \o <<":">> \o clear \o <<" ">> \o value

(***************************************************************************)
(* The collectors.  Each yields whether it raised, the lines it appended   *)
(* to result, and the new value of GlobalTerminal.                         *)
(***************************************************************************)
Raise(GT) == [raised |-> TRUE, lines |-> <<>>, GlobalTerminal |-> GT]
Lines(ls, GT) == [raised |-> FALSE, lines |-> ls, GlobalTerminal |-> GT]

\* re.sub('.local', ' ', hostname): any character followed by "local" becomes a space
RECURSIVE SubDotLocal(_, _)
SubDotLocal(s, i) ==
    IF i > Len(s) THEN <<>>
    ELSE IF i + 5 <= Len(s) /\ SubSeq(s, i + 1, i + 5) = Literal.local
         THEN <<" ">> \o SubDotLocal(s, i + 6)
         ELSE <<s[i]>> \o SubDotLocal(s, i + 1)

\* lines 1204-1214: value is the terminal name; int("") raises when ps gave nothing
IdentifyTerminal(e, GT) ==
    IF GT = Literal.Unset
    THEN LET GrandParentPID == GetCommandOutput(e, "ps", e.ps_ppid)
         IN  IF GrandParentPID = <<>>
             THEN [raised |-> TRUE, value |-> <<>>, GlobalTerminal |-> GT]
             ELSE [raised |-> FALSE, value |-> e.terminal, GlobalTerminal |-> e.terminal]
    ELSE [raised |-> FALSE, value |-> GT, GlobalTerminal |-> GT]

\* lines 1132-1135 and 1417-1420
TTYID(e) == IF CheckCommandInstalled(e, "tty")
            THEN GetCommandOutput(e, "tty", e.tty) ELSE Literal.Undetermined

user_display(e, D, T, GT) == Lines(<<output(D, Literal.key_User, e.user)>>, GT)

hostname_display(e, D, T, GT) ==
    Lines(<<output(D, Literal.key_Hostname,
                   SubDotLocal(GetCommandOutput(e, "uname", e.uname_n), 1))>>, GT)

distro_display(e, D, T, GT) == Lines(<<output(D, Literal.key_OS, T)>>, GT)

pimodel_display(e, D, T, GT) ==
    IF Exists(e.device_tree_model) /\ Contains(Content(e.device_tree_model), Literal.Raspberry)
    THEN Lines(<<output(D, Literal.key_PiModel, Content(e.device_tree_model))>>, GT)
    ELSE Lines(<<>>, GT)

\* line 812 compares the class Distro with Distro.FreeBSD, which never are equal
kernel_display(e, D, T, GT) ==
    Lines(<<output(D, Literal.key_Kernel, GetCommandOutput(e, "uname", e.uname_sr))>>, GT)

uptime_display(e, D, T, GT) ==
    IF D \in {"MacOS", "FreeBSD"}
    THEN IF CheckCommandInstalled(e, "sysctl")
         THEN Lines(<<output(D, Literal.key_Uptime, Sample.uptime)>>, GT)
         ELSE Raise(GT)                        \* BootTime[0] of an empty list
    ELSE IF e.proc_uptime
         THEN Lines(<<output(D, Literal.key_Uptime, Sample.uptime)>>, GT)
         ELSE Raise(GT)                        \* open('/proc/uptime')

wm_display(e, D, T, GT) ==
    IF TTYID(e) \in {Literal.dev_tty1, Literal.dev_ttyv0}
    THEN Lines(<<output(D, Literal.key_WindowManager, Literal.MainConsole)>>, GT)
    ELSE LET term == IdentifyTerminal(e, GT)
         IN  IF term.raised THEN Raise(GT)
             ELSE Lines(<<output(D, Literal.key_WindowManager,
                                 IF term.value = Literal.sshd THEN Literal.SSHConsole
                                 ELSE IF D = "MacOS" THEN Literal.Quartz
                                 ELSE IF CheckCommandInstalled(e, "xprop") THEN Sample.wm
                                 ELSE Literal.NoXprop)>>,
                        term.GlobalTerminal)

\* lines 970-992 and 995-1016, without the version numbers
KDEVersionInfo(e) == Literal.KDE
GNOMEVersionInfo(e) == Literal.GNOME

de_display(e, D, T, GT) ==
    LET id == DesktopEvironmentID(e, D)
        DesktopEnvironment == IF id = Literal.KDE THEN KDEVersionInfo(e)
                              ELSE IF id = Literal.GNOME THEN GNOMEVersionInfo(e)
                              ELSE id
    IN  IF DesktopEnvironment # Literal.None
        THEN Lines(<<output(D, Literal.key_DesktopEnvironment, DesktopEnvironment)>>, GT)
        ELSE Lines(<<>>, GT)

\* the part of a path after its last "/"
RECURSIVE LastComponent(_)
LastComponent(s) ==
    IF Contains(s, <<"/">>) THEN LastComponent(SliceFrom(s, find(s, <<"/">>, 0) + 1)) ELSE s

sh_display(e, D, T, GT) ==
    IF ~Exists(e.SHELL) THEN Raise(GT)         \* None.split('/')
    ELSE LET EnvShell == LastComponent(Content(e.SHELL))
         IN  Lines(<<output(D, Literal.key_Shell,
                            IF EnvShell = Literal.bash /\ CheckCommandInstalled(e, "bash")
                            THEN Sample.bash_version ELSE EnvShell)>>, GT)

term_display(e, D, T, GT) ==
    LET term == IdentifyTerminal(e, GT)
    IN  IF term.raised THEN Raise(GT)
        ELSE Lines(<<output(D, Literal.key_Terminal, term.value)>>, term.GlobalTerminal)

packages_display(e, D, T, GT) ==
    IF D \in {"Ubuntu", "Kubuntu", "Raspbian", "Debian", "CrunchBang", "Linuxmint",
              "Zorin", "PopOS", "Elementary"}
    THEN Lines(<<output(D, Literal.key_Packages, Sample.packages)>>, GT)
    ELSE IF D \in {"Arch", "ManjaroARM", "Manjaro", "Fedora"}
    THEN Lines(<<output(D, Literal.key_Packages, Sample.count)>>, GT)
    ELSE IF D = "MacOS"
    THEN IF CheckCommandInstalled(e, "brew") /\ CheckCommandInstalled(e, "port")
         THEN Lines(<<output(D, Literal.key_Packages, Sample.brew)>>, GT)
         ELSE Raise(GT)                        \* a count that was never assigned
    ELSE Lines(<<>>, GT)

resolution_display(e, D, T, GT) ==
    IF TTYID(e) \in {Literal.dev_tty1, Literal.dev_ttyv0}
    THEN Lines(<<output(D, Literal.key_Resolution, Literal.MainConsole)>>, GT)
    ELSE LET term == IdentifyTerminal(e, GT)
         IN  IF term.raised THEN Raise(GT)
             ELSE Lines(<<output(D, Literal.key_Resolution,
                                 IF term.value = Literal.sshd THEN Literal.SSHConsole
                                 ELSE IF CheckCommandInstalled(e, "xrandr") \/ D = "MacOS"
                                 THEN Sample.resolution ELSE Literal.Undetermined)>>,
                        term.GlobalTerminal)

gpu_display(e, D, T, GT) ==
    Lines(<<output(D, Literal.key_GPU,
                   IF D \in {"MacOS", "FreeBSD"} \/ CheckCommandInstalled(e, "lspci")
                   THEN Sample.gpu ELSE Literal.Undetermined)>>, GT)

cpu_display(e, D, T, GT) ==
    Lines(<<output(D, Literal.key_CPU,
                   IF D \in {"MacOS", "FreeBSD"} \/ CheckCommandInstalled(e, "lscpu")
                   THEN Sample.cpu ELSE Literal.NoLscpu)>>, GT)

ram_display(e, D, T, GT) ==
    LET line == output(D, Literal.key_RAM, greenB \o Sample.ram_used \o clear \o Sample.ram_total)
    IN  IF D = "MacOS"
        THEN IF CheckCommandInstalled(e, "sysctl") /\ CheckCommandInstalled(e, "vm_stat")
             THEN Lines(<<line>>, GT) ELSE Raise(GT)
        ELSE IF D = "FreeBSD"
        THEN IF CheckCommandInstalled(e, "sysctl") THEN Lines(<<line>>, GT) ELSE Raise(GT)
        ELSE IF CheckCommandInstalled(e, "free") THEN Lines(<<line>>, GT) ELSE Raise(GT)

disk_displayWrongSuppressesNoDisks(e, D, T, GT) ==
    LET line == output(D, Literal.key_Disk, greenB \o Sample.disk_used \o clear \o Sample.disk_rest)
    IN  IF D = "MacOS"
        THEN Lines(IF CheckCommandInstalled(e, "df") THEN <<line>> ELSE <<>>, GT)
        ELSE IF D = "FreeBSD" THEN Lines(<<>>, GT)
        ELSE IF CheckCommandInstalled(e, "df") THEN Lines(<<line>>, GT)
        ELSE Raise(GT)

disk_display(e, D, T, GT) ==
    LET line == output(D, Literal.key_Disk, greenB \o Sample.disk_used \o clear \o Sample.disk_rest)
    IN  IF D = "MacOS"
        THEN Lines(<<IF CheckCommandInstalled(e, "df") THEN line
                     ELSE output(D, Literal.key_Disk, Literal.NoDisks)>>, GT)
        ELSE IF D = "FreeBSD" THEN Lines(<<>>, GT)
        ELSE IF CheckCommandInstalled(e, "df") THEN Lines(<<line>>, GT)
        ELSE Raise(GT)                         \* Popen of a missing program

\* lines 1658-1660: the function named <attribute>_display
Collector(EachAttribute, e, D, T, GT) ==
    CASE EachAttribute = "user" -> user_display(e, D, T, GT)
      [] EachAttribute = "hostname" -> hostname_display(e, D, T, GT)
      [] EachAttribute = "distro" -> distro_display(e, D, T, GT)
      [] EachAttribute = "pimodel" -> pimodel_display(e, D, T, GT)
      [] EachAttribute = "kernel" -> kernel_display(e, D, T, GT)
      [] EachAttribute = "uptime" -> uptime_display(e, D, T, GT)
      [] EachAttribute = "wm" -> wm_display(e, D, T, GT)
      [] EachAttribute = "de" -> de_display(e, D, T, GT)
      [] EachAttribute = "sh" -> sh_display(e, D, T, GT)
      [] EachAttribute = "term" -> term_display(e, D, T, GT)
      [] EachAttribute = "packages" -> packages_display(e, D, T, GT)
      [] EachAttribute = "resolution" -> resolution_display(e, D, T, GT)
      [] EachAttribute = "gpu" -> gpu_display(e, D, T, GT)
      [] EachAttribute = "cpu" -> cpu_display(e, D, T, GT)
      [] EachAttribute = "ram" -> ram_display(e, D, T, GT)
      [] EachAttribute = "disk" -> disk_display(e, D, T, GT)

(***************************************************************************)
(* The layout of the main program.                                         *)
(***************************************************************************)
\* lines 1217-1234: (rows, columns), 24 x 80 when stty gave no size
IdentifyRowsColumns(e) ==
    IF Exists(e.stty_size) THEN Content(e.stty_size) ELSE <<24, 80>>

\* lines 1668-1669
ColourBar(c1, c2, c3, c4, c5, c6) ==
    c1 \o Rep("=", 5) \o <<" ">> \o c2 \o Rep("=", 5) \o <<" ">> \o
    c3 \o Rep("=", 5) \o <<" ">> \o c4 \o Rep("=", 5) \o <<" ">> \o
    c5 \o Rep("=", 5) \o <<" ">> \o c6 \o Rep("=", 5) \o clear

ColourBarsWrongSingleBar == <<ColourBar(redN, greenN, yellowN, blueN, magentaN, cyanN)>>

ColourBars == <<ColourBar(redN, greenN, yellowN, blueN, magentaN, cyanN),
                ColourBar(redH, greenH, yellowH, blueH, magentaH, cyanH)>>

LogoOverrideWrongKeepsUnknownArgument(e, CurrentDistroID) ==
    IF Exists(e.argv) /\ Content(e.argv) \in DOMAIN DistroEnumDict
    THEN DistroEnumDict[Content(e.argv)]
    ELSE CurrentDistroID

\* lines 1675-1681
LogoOverride(e, CurrentDistroID) ==
    IF Exists(e.argv)
    THEN (IF Content(e.argv) \in DOMAIN DistroEnumDict
          THEN DistroEnumDict[Content(e.argv)] ELSE "Unknown")
    ELSE CurrentDistroID

PadListsWrongNoPadding(Logo, Data) == [LogoOutputList |-> Logo, result |-> Data]

\* lines 1692-1701: both lists brought to the same length with empty strings
PadLists(Logo, Data) ==
    LET ListSizeDiff == Len(Logo) - Len(Data)
    IN  [LogoOutputList |-> IF ListSizeDiff < 0
                            THEN Logo \o [i \in 1..(-ListSizeDiff) |-> <<>>] ELSE Logo,
         result |-> IF ListSizeDiff > 0
                    THEN Data \o [i \in 1..ListSizeDiff |-> <<>>] ELSE Data]

\* lines 1703-1708
RECURSIVE MinLogoWidth(_)
MinLogoWidth(Logo) ==
    IF Logo = <<>> THEN 0 ELSE Max(ANSILen(Head(Logo))[1], MinLogoWidth(Tail(Logo)))

MergeLineWrongGutter(EachLogo, Width, EachData) ==
    ANSIljust(EachLogo, Width) \o <<" ", " ", " ">> \o EachData

\* line 1711
MergeLine(EachLogo, Width, EachData) ==
    ANSIljust(EachLogo, Width) \o <<" ", " ", " ", " ">> \o EachData

\* line 1686
UseLogo(Columns) == ~(Columns < 70)

\* lines 1684-1711
MergeLists(Logo, Data, Columns) ==
    IF ~UseLogo(Columns)
    THEN [ArcheyOutputList |-> Data, LogoOutputList |-> <<>>, result |-> Data]
    ELSE LET p == PadLists(Logo, Data)
             Width == MinLogoWidth(p.LogoOutputList)
         IN  [ArcheyOutputList |->
                  [i \in 1..Min(Len(p.LogoOutputList), Len(p.result)) |->
                      MergeLine(p.LogoOutputList[i], Width, p.result[i])],
              LogoOutputList |-> p.LogoOutputList,
              result |-> p.result]

(***************************************************************************)
(* Host environments.  The fields read by IdentifyOS vary over             *)
(* IdentifyEnvs; the content of a file or the output of a command that is  *)
(* not there is left empty.                                                *)
(***************************************************************************)
UnameChoices ==
    {[installed |-> {}, uname_s |-> <<>>, uname_m |-> <<>>]}
    \cup {[installed |-> {"uname"}, uname_s |-> <<s>>, uname_m |-> m] :
            s \in {Literal.Darwin, Literal.Linux, Literal.FreeBSD, Sample.OpenBSD},
            m \in {<<Sample.x86_64>>, <<>>}}

OsReleaseChoices ==
    {Absent}
    \cup {Present([ID |-> id, PRETTY_NAME |-> pretty]) :
            id \in {Absent, Present(Sample.os_ubuntu), Present(Sample.os_debian),
                    Present(Sample.os_manjaro_arm), Present(Sample.os_nixos)},
            pretty \in {Absent, Present(Sample.pretty_Ubuntu), Present(Sample.pretty_Debian)}}

LsbChoices ==
    {[installed |-> {}, lsb_is |-> <<>>, lsb_ds |-> <<>>],
     [installed |-> {"lsb_release"}, lsb_is |-> <<Literal.Ubuntu>>, lsb_ds |-> <<Sample.pretty_Ubuntu>>],
     [installed |-> {"lsb_release"}, lsb_is |-> <<Literal.Debian>>, lsb_ds |-> <<Sample.pretty_Debian>>]}

SystemVersionChoices ==
    {Absent}
    \cup {Present([ProductUserVisibleVersion |-> v]) :
            v \in {Sample.v_10_15_7, Sample.v_11_0, Sample.v_11_0_1, Sample.v_12_6_1}}

DesktopChoices ==
    {[XDG_CURRENT_DESKTOP |-> x, processes |-> p] :
        x \in {Absent, Present("KDE"), Present("ubuntu:GNOME")},
        p \in {<<"systemd", "bash">>, <<"systemd", "ksmserver", "bash">>,
               <<"ksmserver", "gnome-shell">>}}

DeviceTreeChoices == {Absent, Present(Sample.model_Pi4), Present(Sample.model_Other)}

\* The fields that only the collectors and the layout read.
RunDefaults ==
    [stty_size |-> Absent, argv |-> Absent,
     user |-> Sample.user, uname_n |-> <<Sample.host_local>>, uname_sr |-> <<Sample.kernel_linux>>,
     SHELL |-> Present(Sample.bin_bash), tty |-> <<Sample.dev_pts0>>, ps_ppid |-> <<Sample.pid>>,
     terminal |-> Sample.konsole, proc_uptime |-> TRUE]

IdentifyEnvs ==
    {[installed |-> un.installed \cup lsb.installed,
      uname_s |-> un.uname_s, uname_m |-> un.uname_m,
      os_release |-> osr,
      lsb_is |-> lsb.lsb_is, lsb_ds |-> lsb.lsb_ds,
      SystemVersion |-> sv,
      XDG_CURRENT_DESKTOP |-> de.XDG_CURRENT_DESKTOP, processes |-> de.processes,
      device_tree_model |-> dtm] @@ RunDefaults :
        un \in UnameChoices, osr \in OsReleaseChoices, lsb \in LsbChoices,
        sv \in SystemVersionChoices, de \in DesktopChoices, dtm \in DeviceTreeChoices}

(***************************************************************************)
(* The main program.                                                       *)
(***************************************************************************)
\* lines 1629-1630: Ignore, DistroID, DistroTitle = IdentifyOS()
MainIdentifyOS ==
    /\ pc = "IdentifyOS"
    /\ LET r == IdentifyOS(env, DistroID)
       IN  /\ locals' = r.base
           /\ IF r.raised
              THEN /\ pc' = "Crashed"
                   /\ UNCHANGED <<Ignore, DistroID, DistroTitle>>
              ELSE /\ pc' = "InitLog"
                   /\ Ignore' = r.OSReleaseID
                   /\ DistroID' = r.OSEnumID
                   /\ DistroTitle' = r.OSReleasePretty
    /\ UNCHANGED <<env, ansi, GlobalTerminal, result, LogFile, TerminalColumns, attr,
                   LogoOutputList, ArcheyOutputList, stdout>>

\* The globals as the module sets them (lines 260-264), before the main program.
InitGlobals ==
    /\ pc = "IdentifyOS"
    /\ Ignore = <<>>
    /\ DistroID = "Unknown"
    /\ DistroTitle = Literal.Unknown
    /\ locals = [raised |-> FALSE, OSReleaseID |-> <<>>, OSReleasePretty |-> <<>>,
                 checked |-> {}, launched |-> {}]
    /\ GlobalTerminal = Literal.Unset
    /\ result = <<>>
    /\ LogFile = <<>>
    /\ TerminalColumns = 0
    /\ attr = 0
    /\ LogoOutputList = <<>>
    /\ ArcheyOutputList = <<>>
    /\ stdout = <<>>

NoANSICall == [tokens |-> <<>>, call |-> "off", arg |-> 0, ret |-> <<>>]

InitIdentify ==
    /\ env \in IdentifyEnvs
    /\ InitGlobals
    /\ ansi = NoANSICall

NextIdentify == MainIdentifyOS

SpecIdentify == InitIdentify /\ [][NextIdentify]_vars

(***************************************************************************)
(* The hosts the whole program is run on.                                  *)
(***************************************************************************)
UbuntuHost ==
    [installed |-> {"uname", "tty", "ps", "xprop", "xrandr", "free", "df", "lscpu",
                    "lspci", "bash", "dpkg-query"},
     uname_s |-> <<Literal.Linux>>, uname_m |-> <<Sample.x86_64>>,
     os_release |-> Present([ID |-> Present(Sample.os_ubuntu),
                             PRETTY_NAME |-> Present(Sample.pretty_Ubuntu)]),
     lsb_is |-> <<>>, lsb_ds |-> <<>>,
     SystemVersion |-> Absent,
     XDG_CURRENT_DESKTOP |-> Present("KDE"),
     processes |-> <<"systemd", "ksmserver", "bash">>,
     device_tree_model |-> Absent] @@ RunDefaults

ManjaroHost ==
    [UbuntuHost EXCEPT
        !.installed = {"uname", "tty", "ps", "free", "df", "lscpu", "lspci", "pacman"},
        !.os_release = Present([ID |-> Present(Sample.os_manjaro), PRETTY_NAME |-> Absent]),
        !.XDG_CURRENT_DESKTOP = Absent,
        !.processes = <<"systemd", "bash">>,
        !.tty = <<Literal.dev_tty1>>,
        !.uname_n = <<Sample.host_plain>>]

RaspberryPiHost ==
    [UbuntuHost EXCEPT
        !.installed = {"uname", "tty", "ps", "free", "df", "lscpu", "bash", "dpkg-query"},
        !.os_release = Present([ID |-> Present(Sample.os_debian),
                                PRETTY_NAME |-> Present(Sample.pretty_Debian)]),
        !.XDG_CURRENT_DESKTOP = Absent,
        !.processes = <<"systemd", "sshd", "bash">>,
        !.device_tree_model = Present(Sample.model_Pi4),
        !.terminal = Literal.sshd]

MacHost ==
    [UbuntuHost EXCEPT
        !.installed = {"uname", "tty", "ps", "sysctl", "vm_stat", "df", "brew", "port"},
        !.uname_s = <<Literal.Darwin>>,
        !.uname_sr = <<Sample.kernel_darwin>>,
        !.os_release = Absent,
        !.SystemVersion = Present([ProductUserVisibleVersion |-> Sample.v_10_15_7]),
        !.XDG_CURRENT_DESKTOP = Absent,
        !.processes = <<"launchd", "zsh">>,
        !.SHELL = Present(Sample.bin_zsh),
        !.proc_uptime = FALSE]

MacWithoutBrewHost == [MacHost EXCEPT !.installed = @ \ {"brew"}]

MacWithoutSystemVersionHost == [MacHost EXCEPT !.SystemVersion = Absent]

FreeBSDHost ==
    [UbuntuHost EXCEPT
        !.installed = {"uname", "tty", "ps", "sysctl", "xprop", "xrandr"},
        !.uname_s = <<Literal.FreeBSD>>,
        !.uname_sr = <<Sample.kernel_freebsd>>,
        !.os_release = Present([ID |-> Present(Sample.os_freebsd), PRETTY_NAME |-> Absent]),
        !.XDG_CURRENT_DESKTOP = Absent,
        !.processes = <<"init", "sh">>,
        !.proc_uptime = FALSE]

ContainerHost ==
    [UbuntuHost EXCEPT
        !.installed = {"uname"},
        !.os_release = Absent,
        !.XDG_CURRENT_DESKTOP = Absent,
        !.processes = <<"sh">>,
        !.SHELL = Absent,
        !.ps_ppid = <<>>]

\* df -k lists no /dev/disk entry (here: df is not on the PATH)
MacWithoutDiskHost == [MacHost EXCEPT !.installed = @ \ {"df"}]

\* the terminal program (the grandparent process) is an executable named Unset
UnsetTerminalHost == [UbuntuHost EXCEPT !.terminal = Literal.Unset]

HostProfiles == {UbuntuHost, ManjaroHost, RaspberryPiHost, MacHost, MacWithoutBrewHost,
                 MacWithoutSystemVersionHost, MacWithoutDiskHost, FreeBSDHost, ContainerHost,
                 UnsetTerminalHost}

\* what "stty size" reports: nothing, or rows and columns
SttyChoices == {Absent, Present(<<24, 20>>), Present(<<24, 70>>), Present(<<24, 71>>),
                Present(<<50, 120>>)}

\* sys.argv[1]
ArgvChoices == {Absent, Present(Sample.Arch), Present(Sample.Bogus)}

RunEnvs == {[h EXCEPT !.stty_size = z, !.argv = a] :
              h \in HostProfiles, z \in SttyChoices, a \in ArgvChoices}

(***************************************************************************)
(* The main program, section by section.                                   *)
(***************************************************************************)
\* lines 1634-1638
InitLog ==
    /\ pc = "InitLog"
    /\ LogFile' = <<"Archey Performance Log">>
    /\ pc' = "TermSize"
    /\ UNCHANGED <<env, Ignore, DistroID, DistroTitle, locals, ansi, GlobalTerminal,
                   result, TerminalColumns, attr, LogoOutputList, ArcheyOutputList, stdout>>

\* lines 1640-1644
TermSize ==
    /\ pc = "TermSize"
    /\ TerminalColumns' = IdentifyRowsColumns(env)[2] - 1
    /\ attr' = 1
    /\ pc' = "Collect"
    /\ UNCHANGED <<env, Ignore, DistroID, DistroTitle, locals, ansi, GlobalTerminal,
                   result, LogFile, LogoOutputList, ArcheyOutputList, stdout>>

RunCollectorWrongLogsOnlyLines ==
    /\ pc = "Collect"
    /\ LET r == Collector(display[attr], env, DistroID, DistroTitle, GlobalTerminal)
       IN  IF r.raised
           THEN /\ pc' = "Crashed"
                /\ UNCHANGED <<GlobalTerminal, result, LogFile, attr>>
           ELSE /\ result' = result \o r.lines
                /\ GlobalTerminal' = r.GlobalTerminal
                /\ LogFile' = IF r.lines = <<>> THEN LogFile
                              ELSE Append(LogFile, display[attr])
                /\ attr' = attr + 1
                /\ pc' = IF attr = Len(display) THEN "ColourBars" ELSE "Collect"
    /\ UNCHANGED <<env, Ignore, DistroID, DistroTitle, locals, ansi, TerminalColumns,
                   LogoOutputList, ArcheyOutputList, stdout>>

\* lines 1647-1665: one turn of the loop over display
RunCollector ==
    /\ pc = "Collect"
    /\ LET r == Collector(display[attr], env, DistroID, DistroTitle, GlobalTerminal)
       IN  IF r.raised
           THEN /\ pc' = "Crashed"
                /\ UNCHANGED <<GlobalTerminal, result, LogFile, attr>>
           ELSE /\ result' = result \o r.lines
                /\ GlobalTerminal' = r.GlobalTerminal
                /\ LogFile' = Append(LogFile, display[attr])
                /\ attr' = attr + 1
                /\ pc' = IF attr = Len(display) THEN "ColourBars" ELSE "Collect"
    /\ UNCHANGED <<env, Ignore, DistroID, DistroTitle, locals, ansi, TerminalColumns,
                   LogoOutputList, ArcheyOutputList, stdout>>

\* lines 1667-1672
AddColourBars ==
    /\ pc = "ColourBars"
    /\ result' = result \o ColourBars
    /\ pc' = "Override"
    /\ UNCHANGED <<env, Ignore, DistroID, DistroTitle, locals, ansi, GlobalTerminal,
                   LogFile, TerminalColumns, attr, LogoOutputList, ArcheyOutputList, stdout>>

OverrideWrongWithoutArgument ==
    /\ pc = "Override"
    /\ DistroID' = IF Exists(env.argv) THEN LogoOverride(env, DistroID) ELSE "Unknown"
    /\ pc' = "Merge"
    /\ UNCHANGED <<env, Ignore, DistroTitle, locals, ansi, GlobalTerminal, result,
                   LogFile, TerminalColumns, attr, LogoOutputList, ArcheyOutputList, stdout>>

\* lines 1674-1681
Override ==
    /\ pc = "Override"
    /\ DistroID' = LogoOverride(env, DistroID)
    /\ pc' = "Merge"
    /\ UNCHANGED <<env, Ignore, DistroTitle, locals, ansi, GlobalTerminal, result,
                   LogFile, TerminalColumns, attr, LogoOutputList, ArcheyOutputList, stdout>>

\* lines 1683-1711
Merge ==
    /\ pc = "Merge"
    /\ LET m == MergeLists(DefineDistroLogo(DistroID), result, TerminalColumns)
       IN  /\ ArcheyOutputList' = m.ArcheyOutputList
           /\ LogoOutputList' = m.LogoOutputList
           /\ result' = m.result
    /\ pc' = "Write"
    /\ UNCHANGED <<env, Ignore, DistroID, DistroTitle, locals, ansi, GlobalTerminal,
                   LogFile, TerminalColumns, attr, stdout>>

\* lines 1713-1719
WriteBanner ==
    /\ pc = "Write"
    /\ stdout' = <<<<>>>> \o [i \in 1..Len(ArcheyOutputList) |->
                               TruncatedLine(ArcheyOutputList[i], TerminalColumns)]
                         \o <<<<>>>>
    /\ pc' = "Done"
    /\ UNCHANGED <<env, Ignore, DistroID, DistroTitle, locals, ansi, GlobalTerminal,
                   result, LogFile, TerminalColumns, attr, LogoOutputList, ArcheyOutputList>>

Init ==
    /\ env \in RunEnvs
    /\ InitGlobals
    /\ ansi = NoANSICall

Next ==
    \/ MainIdentifyOS
    \/ InitLog
    \/ TermSize
    \/ RunCollector
    \/ AddColourBars
    \/ Override
    \/ Merge
    \/ WriteBanner

Spec == Init /\ [][Next]_vars

(***************************************************************************)
(* Inputs of the layout functions: strings built from tokens.  A token is  *)
(* one character or one valid escape sequence.                             *)
(***************************************************************************)
EscapeTokens == { <<ESC, "[", "m">>,
                  <<ESC, "[", "1", "m">>,
                  <<ESC, "[", "1", ";", "3", "m">> }

VisibleTokens == { <<"a">>, <<" ">>, <<"m">>, <<"1">>, <<"[">>, <<";">> }

BareEscape == <<ESC>>

\* sequences introduced by ESC that the grammar does not match: a bare ESC,
\* an unterminated sequence and one with a '?' parameter
MalformedTokens == { BareEscape,
                     <<ESC, "[", "1", ";">>,
                     <<ESC, "[", "?", "1", "h">> }

Tokens == EscapeTokens \cup VisibleTokens \cup MalformedTokens

TokenSeqs == UNION { [1..n -> Tokens] : n \in 0..MaxTokens }

\* visible characters interleaved with valid escape sequences
WellFormed(tokens) == \A i \in 1..Len(tokens) : tokens[i] \notin MalformedTokens

NumVisible(tokens) == Cardinality({i \in 1..Len(tokens) : tokens[i] \in VisibleTokens})

RECURSIVE NumEscapeChars(_)
NumEscapeChars(tokens) ==
    IF tokens = <<>> THEN 0
    ELSE (IF Head(tokens) \in EscapeTokens THEN Len(Head(tokens)) ELSE 0)
         + NumEscapeChars(Tail(tokens))

(***************************************************************************)
(* The layout functions applied to every input.                            *)
(***************************************************************************)
InitANSI ==
    /\ env \in {e \in IdentifyEnvs : e.installed = {} /\ e.os_release = Absent
                                     /\ e.SystemVersion = Absent
                                     /\ e.XDG_CURRENT_DESKTOP = Absent
                                     /\ e.processes = <<"systemd", "bash">>
                                     /\ e.device_tree_model = Absent}
    /\ ansi \in [tokens : TokenSeqs, call : {"none"}, arg : {0}, ret : {<<>>}]
    /\ InitGlobals

CallANSILen ==
    /\ ansi.call = "none"
    /\ ansi' = [ansi EXCEPT !.call = "ANSILen",
                            !.ret = ANSILen(Flatten(ansi.tokens))]
    /\ UNCHANGED <<env, pc, Ignore, DistroID, DistroTitle, locals, GlobalTerminal, result,
                   LogFile, TerminalColumns, attr, LogoOutputList, ArcheyOutputList, stdout>>

CallANSIljust ==
    /\ ansi.call = "none"
    /\ \E MinLength \in 0..MaxMinLength :
         ansi' = [ansi EXCEPT !.call = "ANSIljust", !.arg = MinLength,
                              !.ret = ANSIljust(Flatten(ansi.tokens), MinLength)]
    /\ UNCHANGED <<env, pc, Ignore, DistroID, DistroTitle, locals, GlobalTerminal, result,
                   LogFile, TerminalColumns, attr, LogoOutputList, ArcheyOutputList, stdout>>

CallTruncate ==
    /\ ansi.call = "none"
    /\ \E Columns \in 0..MaxColumns :
         ansi' = [ansi EXCEPT !.call = "truncate", !.arg = Columns,
                              !.ret = TruncatedLine(Flatten(ansi.tokens), Columns)]
    /\ UNCHANGED <<env, pc, Ignore, DistroID, DistroTitle, locals, GlobalTerminal, result,
                   LogFile, TerminalColumns, attr, LogoOutputList, ArcheyOutputList, stdout>>

NextANSI == CallANSILen \/ CallANSIljust \/ CallTruncate

SpecANSI == InitANSI /\ [][NextANSI]_vars

(***************************************************************************)
(* The command adapter applied to one tool.  env.installed says which of   *)
(* `which` and the tool are on the PATH, env.tool_stdout is what the tool  *)
(* writes to its standard output.  CheckCommandInstalled launches `which`  *)
(* with Popen (line 707) without testing that `which` exists: Popen raises *)
(* FileNotFoundError when it does not, and nothing in the adapter catches  *)
(* it.  locals.launched records the programs handed to Popen.              *)
(***************************************************************************)
InitCommand ==
    /\ env \in [installed : SUBSET {"which", "tool"},
                tool_stdout : UNION {[1..n -> {"a", "b", "\n"}] : n \in 0..MaxOutput}]
    /\ ansi = [tokens |-> <<>>, call |-> "none", arg |-> 0, ret |-> <<>>]
    /\ InitGlobals

CallGetCommandOutput ==
    /\ ansi.call = "none"
    /\ ansi' = [ansi EXCEPT !.call = "GetCommandOutput",
                            !.ret = GetCommandOutput(env, "tool", split(env.tool_stdout, "\n"))]
    /\ pc' = IF "which" \in env.installed THEN pc ELSE "Crashed"
    /\ locals' = [locals EXCEPT !.launched =
                     {"which"} \cup (IF "which" \in env.installed
                                       /\ CheckCommandInstalled(env, "tool")
                                    THEN {"tool"} ELSE {})]
    /\ UNCHANGED <<env, Ignore, DistroID, DistroTitle, GlobalTerminal, result,
                   LogFile, TerminalColumns, attr, LogoOutputList, ArcheyOutputList, stdout>>

CallGetCommandOutputList ==
    /\ ansi.call = "none"
    /\ ansi' = [ansi EXCEPT !.call = "GetCommandOutputList",
                            !.ret = GetCommandOutputList(env, "tool",
                                                         split(env.tool_stdout, "\n"))]
    /\ pc' = IF "which" \in env.installed THEN pc ELSE "Crashed"
    /\ locals' = [locals EXCEPT !.launched =
                     {"which"} \cup (IF "which" \in env.installed
                                       /\ CheckCommandInstalled(env, "tool")
                                    THEN {"tool"} ELSE {})]
    /\ UNCHANGED <<env, Ignore, DistroID, DistroTitle, GlobalTerminal, result,
                   LogFile, TerminalColumns, attr, LogoOutputList, ArcheyOutputList, stdout>>

CallCountCommandOutput ==
    /\ ansi.call = "none"
    /\ ansi' = [ansi EXCEPT !.call = "CountCommandOutput",
                            !.ret = CountCommandOutput(env, "tool",
                                                       split(env.tool_stdout, "\n"))]
    /\ pc' = IF "which" \in env.installed THEN pc ELSE "Crashed"
    /\ locals' = [locals EXCEPT !.launched =
                     {"which"} \cup (IF "which" \in env.installed
                                       /\ CheckCommandInstalled(env, "tool")
                                    THEN {"tool"} ELSE {})]
    /\ UNCHANGED <<env, Ignore, DistroID, DistroTitle, GlobalTerminal, result,
                   LogFile, TerminalColumns, attr, LogoOutputList, ArcheyOutputList, stdout>>

NextCommand == CallGetCommandOutput \/ CallGetCommandOutputList \/ CallCountCommandOutput

SpecCommand == InitCommand /\ [][NextCommand]_vars

(***************************************************************************)
(* C24: the command adapter never launches a program the availability      *)
(* check does not find and never raises: with the tool absent the three    *)
(* functions return "", [] and 0; with the tool present they return the    *)
(* first line, all lines and the number of lines of its standard output.   *)
(* The lines are the newline-terminated stretches of the output; the list  *)
(* ends with whatever follows the last newline (the empty string when the  *)
(* output ends with a newline, as the output of the tools does).           *)
(***************************************************************************)
C24_AdapterReportsAbsence ==
    LET text == env.tool_stdout
        present == "tool" \in env.installed
        Newlines == {i \in 1..Len(text) : text[i] = "\n"}
        NumLines == Cardinality(Newlines)
        \* where the k-th line starts: after the (k-1)-th newline
        LineStart(k) == IF k = 1 THEN 1
                        ELSE 1 + CHOOSE i \in Newlines :
                                     Cardinality({j \in Newlines : j < i}) = k - 2
        LineEnd(k) == IF k = NumLines + 1 THEN Len(text)
                      ELSE (CHOOSE i \in Newlines :
                                 Cardinality({j \in Newlines : j < i}) = k - 1) - 1
        Line(k) == SubSeq(text, LineStart(k), LineEnd(k))
    IN  ansi.call # "none" =>
          /\ pc # "Crashed"
          /\ locals.launched \subseteq env.installed \cup {"which"}
          /\ "tool" \in locals.launched <=> present
          /\ ansi.call = "GetCommandOutput" =>
                ansi.ret = IF present THEN Line(1) ELSE <<>>
          /\ ansi.call = "GetCommandOutputList" =>
                ansi.ret = IF present THEN [k \in 1..(NumLines + 1) |-> Line(k)] ELSE <<>>
          /\ ansi.call = "CountCommandOutput" =>
                ansi.ret = IF present THEN NumLines ELSE 0

\* The same contract on the hosts where `which` itself is on the PATH.
C24_AdapterWithWhich == ("which" \in env.installed) => C24_AdapterReportsAbsence

(***************************************************************************)
(* C2: for a string of visible characters interleaved with valid escape    *)
(* sequences, ANSILen returns (v, e) with v the number of characters        *)
(* outside escape sequences, e the number inside, and v + e = len(s).      *)
(***************************************************************************)
C2_ANSILenCounts ==
    (ansi.call = "ANSILen" /\ WellFormed(ansi.tokens)) =>
        /\ ansi.ret[1] = NumVisible(ansi.tokens)
        /\ ansi.ret[2] = NumEscapeChars(ansi.tokens)
        /\ ansi.ret[1] + ansi.ret[2] = Len(Flatten(ansi.tokens))

C2_Witness ==
    /\ ansi.call = "ANSILen"
    /\ WellFormed(ansi.tokens)
    /\ Len(ansi.tokens) = 3
    /\ ansi.tokens[1] \in VisibleTokens
    /\ ansi.tokens[2] = <<ESC, "[", "1", ";", "3", "m">>
    /\ ansi.tokens[3] \in VisibleTokens
    /\ ansi.ret = <<2, 6>>

(***************************************************************************)
(* C3: ANSIljust(s, n) is s followed only by spaces, and its visible       *)
(* length is max(n, visible length of s).                                  *)
(***************************************************************************)
C3_LjustVisibleWidth ==
    ansi.call = "ANSIljust" =>
        LET s == Flatten(ansi.tokens)
            r == ansi.ret
        IN  /\ Len(r) >= Len(s)
            /\ SubSeq(r, 1, Len(s)) = s
            /\ \A i \in (Len(s) + 1)..Len(r) : r[i] = " "
            /\ ANSILen(r)[1] = Max(ansi.arg, ANSILen(s)[1])

C3_Witness ==
    /\ ansi.call = "ANSIljust"
    /\ ANSILen(Flatten(ansi.tokens))[2] > 0
    /\ ansi.arg > ANSILen(Flatten(ansi.tokens))[1]
    /\ Len(ansi.ret) > Len(Flatten(ansi.tokens))

(***************************************************************************)
(* C4: the text printed for a line, line[: w + escapeCharCount(line)],     *)
(* has visible length <= w.                                                *)
(***************************************************************************)
C4_WrittenLinesFitColumns ==
    pc = "Done" =>
        \A i \in 1..Len(stdout) : ANSILen(stdout[i])[1] <= TerminalColumns

\* the column count the terminal-size probe reports
ReportedColumns == IF Exists(env.stty_size) THEN Content(env.stty_size)[2] ELSE 80

\* the largest visible length among the lines of a logo
WidestLine(Logo) ==
    IF Logo = <<>> THEN 0
    ELSE CHOOSE w \in {ANSILen(Logo[i])[1] : i \in 1..Len(Logo)} :
            \A i \in 1..Len(Logo) : ANSILen(Logo[i])[1] <= w

(***************************************************************************)
(* C5: merging a logo of L lines with D data lines yields max(L, D)        *)
(* output lines, for every terminal width.  This is the claim as stated.   *)
(***************************************************************************)
C5_MaxLinesAsStated ==
    [][pc = "Merge" =>
         Len(ArcheyOutputList') = Max(Len(DefineDistroLogo(DistroID)), Len(result))]_vars

(***************************************************************************)
(* C5, amended: when the logo is shown (TerminalColumns >= 70) the output  *)
(* has max(L, D) lines; when it is not, the output has the D data lines.   *)
(***************************************************************************)
C5_MaxLinesWhenLogoShown ==
    [][pc = "Merge" =>
         Len(ArcheyOutputList') =
             IF TerminalColumns >= 70
             THEN Max(Len(DefineDistroLogo(DistroID)), Len(result))
             ELSE Len(result)]_vars

C5_Witness ==
    /\ pc = "Write"
    /\ TerminalColumns >= 70
    /\ Len(DefineDistroLogo(DistroID)) < Len(ArcheyOutputList)
    /\ LogoOutputList[Len(ArcheyOutputList)] = <<>>
    /\ result[Len(ArcheyOutputList)] # <<>>

(***************************************************************************)
(* C8: a reported terminal width below 70 columns gives the data lines     *)
(* alone; a reported width of 70 columns or more gives the logo merged     *)
(* beside the data.                                                        *)
(***************************************************************************)
C8_LogoThreshold ==
    pc \in {"Write", "Done"} =>
        IF ReportedColumns < 70
        THEN /\ ArcheyOutputList = result
             /\ LogoOutputList = <<>>
        ELSE /\ LogoOutputList # <<>>
             /\ Len(ArcheyOutputList) = Len(LogoOutputList)
             /\ \A i \in 1..Len(ArcheyOutputList) :
                    SubSeq(ArcheyOutputList[i], 1, Len(LogoOutputList[i])) = LogoOutputList[i]

(***************************************************************************)
(* C9: when the logo is shown, output line i is logo line i padded with    *)
(* spaces to exactly minLogoWidth visible columns (the largest visible     *)
(* length of a logo line), then four spaces, then data line i unaltered;   *)
(* past the end of the shorter list the missing side is the empty string.  *)
(***************************************************************************)
C9_MergedLineLayout ==
    [][(pc = "Merge" /\ TerminalColumns >= 70) =>
         LET Logo == DefineDistroLogo(DistroID)
             W == WidestLine(Logo)
             n == Max(Len(Logo), Len(result))
         IN  /\ Len(ArcheyOutputList') = n
             /\ \A i \in 1..n :
                    LET l == IF i <= Len(Logo) THEN Logo[i] ELSE <<>>
                        d == IF i <= Len(result) THEN result[i] ELSE <<>>
                        line == ArcheyOutputList'[i]
                        k == Len(line) - Len(l) - 4 - Len(d)
                    IN  /\ k >= 0
                        /\ line = l \o Rep(" ", k) \o <<" ", " ", " ", " ">> \o d
                        /\ ANSILen(l \o Rep(" ", k))[1] = W]_vars

C9_Witness ==
    /\ pc = "Write"
    /\ TerminalColumns >= 70
    /\ \E i \in 1..Len(ArcheyOutputList) :
           /\ ANSILen(LogoOutputList[i])[1] < WidestLine(LogoOutputList)
           /\ result[i] # <<>>
           /\ ANSILen(ArcheyOutputList[i])[1] =
                  WidestLine(LogoOutputList) + 4 + ANSILen(result[i])[1]
    /\ result[Len(ArcheyOutputList)] = <<>>

(***************************************************************************)
(* What the claims about IdentifyOS refer to.                              *)
(***************************************************************************)
Identified == pc # "IdentifyOS" /\ pc # "Crashed"

FirstLine(Output) == IF Output = <<>> THEN <<>> ELSE Output[1]

\* the kernel name uname reports, <<>> when uname is not installed
KernelName == IF "uname" \in env.installed THEN FirstLine(env.uname_s) ELSE <<>>

\* the pretty name of the base cascade with the architecture appended
OriginalPretty == locals.OSReleasePretty \o <<" ">> \o FirstLine(env.uname_m)

\* the major.minor prefix of a version with at least two components
MajorMinor(v) ==
    LET d1 == find(v, <<".">>, 0)
        d2 == find(v, <<".">>, d1 + 1)
    IN  IF d2 = -1 THEN v ELSE SubSeq(v, 1, d2)

(***************************************************************************)
(* C1: IdentifyOS is total: for every kernel family, with or without       *)
(* /etc/os-release and lsb_release, it returns without raising, the        *)
(* identity is a member of Distro and the pretty name is not empty.        *)
(***************************************************************************)
C1_IdentifyOSTotal ==
    pc # "IdentifyOS" =>
        /\ pc # "Crashed"
        /\ DistroID \in Distro
        /\ DistroTitle # <<>>

(***************************************************************************)
(* C6: raw identity "Ubuntu" with the desktop probe "KDE" gives raw        *)
(* identity "Kubuntu", Distro.Kubuntu and a pretty name "Kubuntu" followed *)
(* by the unchanged remainder of the original; any other probe leaves      *)
(* identity and pretty name alone.  This is the claim as stated.           *)
(***************************************************************************)
C6_KubuntuAsStated ==
    (Identified /\ locals.OSReleaseID = Literal.Ubuntu) =>
        IF DesktopEvironmentID(env, "Unknown") = Literal.KDE
        THEN /\ Ignore = Literal.Kubuntu
             /\ DistroID = "Kubuntu"
             /\ DistroTitle = Literal.Kubuntu \o SliceFrom(OriginalPretty, Len(Literal.Ubuntu))
        ELSE /\ Ignore = Literal.Ubuntu
             /\ DistroID = "Ubuntu"
             /\ DistroTitle = OriginalPretty

(***************************************************************************)
(* C6, amended: with the probe "KDE" the pretty name is "Ku" followed by   *)
(* the original pretty name without its first character; it is "Kubuntu"   *)
(* followed by the unchanged remainder whenever the original begins with   *)
(* "Ubuntu" (ID=ubuntu, PRETTY_NAME=Ubuntu 22.04.3 LTS, x86_64 gives       *)
(* "Kubuntu 22.04.3 LTS x86_64").                                          *)
(***************************************************************************)
C6_KubuntuOverride ==
    (Identified /\ locals.OSReleaseID = Literal.Ubuntu) =>
        IF DesktopEvironmentID(env, "Unknown") = Literal.KDE
        THEN /\ Ignore = Literal.Kubuntu
             /\ DistroID = "Kubuntu"
             /\ DistroTitle = <<"K", "u">> \o Tail(OriginalPretty)
             /\ SubSeq(OriginalPretty, 1, Len(Literal.Ubuntu)) = Literal.Ubuntu =>
                    DistroTitle = Literal.Kubuntu \o SliceFrom(OriginalPretty, Len(Literal.Ubuntu))
             /\ (locals.OSReleasePretty = Sample.pretty_Ubuntu /\ env.uname_m = <<Sample.x86_64>>) =>
                    DistroTitle = Sample.pretty_Kubuntu_x86_64
        ELSE /\ Ignore = Literal.Ubuntu
             /\ DistroID = "Ubuntu"
             /\ DistroTitle = OriginalPretty

C6_Witness ==
    /\ Identified
    /\ Exists(env.os_release)
    /\ Content(env.os_release).ID = Present(Sample.os_ubuntu)
    /\ Content(env.os_release).PRETTY_NAME = Present(Sample.pretty_Ubuntu)
    /\ DesktopEvironmentID(env, "Unknown") = Literal.KDE
    /\ DistroID = "Kubuntu"
    /\ DistroTitle = Sample.pretty_Kubuntu_x86_64

(***************************************************************************)
(* C7: on Darwin the identity is MacOS and the major.minor prefix of the   *)
(* product version, two- and three-component versions alike, is looked up  *)
(* in the version-name table: "<name> (<version>)" if present, otherwise   *)
(* "Mac OS Version <version>"; then a space and the architecture.          *)
(***************************************************************************)
C7_MacOSVersionName ==
    (Identified /\ KernelName = Literal.Darwin) =>
        LET OSXVersion == Content(env.SystemVersion).ProductUserVisibleVersion
            Prefix == MajorMinor(OSXVersion)
        IN  /\ DistroID = "MacOS"
            /\ DistroTitle =
                 (IF Prefix \in DOMAIN MacOSVersion_dict
                  THEN MacOSVersion_dict[Prefix] \o <<" ", "(">> \o OSXVersion \o <<")">>
                  ELSE Literal.MacOSVersionPrefix \o OSXVersion)
                 \o <<" ">> \o FirstLine(env.uname_m)

(***************************************************************************)
(* C10: on Linux or FreeBSD the first applicable source wins:              *)
(* /etc/os-release (ID capitalized, PRETTY_NAME, each "Undetermined" when  *)
(* its key is absent) without consulting lsb_release; else lsb_release's   *)
(* short and long output; else "Undetermined" twice.  Any other kernel     *)
(* name, or no uname, gives "Undetermined" twice and the identity Unknown. *)
(* Raw identity and pretty name are those of the base cascade.             *)
(***************************************************************************)
C10_SourceCascade ==
    pc # "IdentifyOS" =>
        IF KernelName \in {Literal.Linux, Literal.FreeBSD}
        THEN IF Exists(env.os_release)
             THEN LET OSRelease == Content(env.os_release)
                  IN  /\ Exists(OSRelease.ID) =>
                            /\ locals.OSReleaseID = capitalize(Content(OSRelease.ID))
                            /\ Content(OSRelease.ID) = Sample.os_ubuntu => locals.OSReleaseID = Literal.Ubuntu
                            /\ Content(OSRelease.ID) = Sample.os_manjaro_arm =>
                                   locals.OSReleaseID = <<"M","a","n","j","a","r","o","-","a","r","m">>
                      /\ ~Exists(OSRelease.ID) => locals.OSReleaseID = Literal.Undetermined
                      /\ Exists(OSRelease.PRETTY_NAME) =>
                            locals.OSReleasePretty = Content(OSRelease.PRETTY_NAME)
                      /\ ~Exists(OSRelease.PRETTY_NAME) =>
                            locals.OSReleasePretty = Literal.Undetermined
                      /\ "lsb_release" \notin locals.checked \cup locals.launched
             ELSE IF "lsb_release" \in env.installed
             THEN /\ locals.OSReleaseID = FirstLine(env.lsb_is)
                  /\ locals.OSReleasePretty = FirstLine(env.lsb_ds)
                  /\ "lsb_release" \in locals.launched
             ELSE /\ locals.OSReleaseID = Literal.Undetermined
                  /\ locals.OSReleasePretty = Literal.Undetermined
        ELSE IF KernelName # Literal.Darwin
        THEN /\ locals.OSReleaseID = Literal.Undetermined
             /\ locals.OSReleasePretty = Literal.Undetermined
             /\ pc # "Crashed"
             /\ Ignore = Literal.Undetermined
             /\ DistroID = "Unknown"
        ELSE TRUE

C10_Witness ==
    /\ Identified
    /\ KernelName = Literal.FreeBSD
    /\ Exists(env.os_release)
    /\ Content(env.os_release).ID = Present(Sample.os_manjaro_arm)
    /\ ~Exists(Content(env.os_release).PRETTY_NAME)
    /\ "lsb_release" \in env.installed
    /\ locals.OSReleaseID = <<"M","a","n","j","a","r","o","-","a","r","m">>
    /\ locals.OSReleasePretty = Literal.Undetermined
    /\ locals.launched = {"uname"}

(***************************************************************************)
(* C11: the identity IdentifyOS returns is the table entry of the raw      *)
(* identity it returns (after the Kubuntu and Raspbian overrides) when     *)
(* that string is a key of the table, and Distro.Unknown for every other   *)
(* string, "Undetermined" included.                                        *)
(***************************************************************************)
C11_EnumMatchesRawIdentity ==
    Identified =>
        /\ Ignore \in DOMAIN DistroEnumDict => DistroID = DistroEnumDict[Ignore]
        /\ Ignore \notin DOMAIN DistroEnumDict => DistroID = "Unknown"
        /\ Ignore = Literal.Undetermined => DistroID = "Unknown"
        /\ Ignore = Literal.Kubuntu => DistroID = "Kubuntu"
        /\ Ignore = Literal.Raspbian => DistroID = "Raspbian"
        /\ DistroID \in Distro

C11_Witness ==
    /\ Identified
    /\ locals.OSReleaseID = Literal.Debian
    /\ Ignore = Literal.Raspbian
    /\ DistroID = "Raspbian"

\* a raw identity that is no key of the table maps to Unknown
C11_WitnessUnmapped ==
    /\ Identified
    /\ Ignore = capitalize(Sample.os_manjaro_arm)
    /\ DistroID = "Unknown"

\* the device-tree model file exists and names a Raspberry Pi
IsRaspberryPi ==
    /\ Exists(env.device_tree_model)
    /\ Contains(Content(env.device_tree_model), Literal.RaspberryPi)

(***************************************************************************)
(* C12: raw identity "Debian" on a Raspberry Pi gives Raspbian and the     *)
(* pretty name "Rasp" followed by the original pretty name without its     *)
(* first character; otherwise identity and pretty name are unchanged.      *)
(* This is the claim as stated.                                            *)
(***************************************************************************)
C12_RaspbianAsStated ==
    (Identified /\ locals.OSReleaseID = Literal.Debian) =>
        IF IsRaspberryPi
        THEN /\ Ignore = Literal.Raspbian
             /\ DistroID = "Raspbian"
             /\ DistroTitle = <<"R", "a", "s", "p">> \o Tail(OriginalPretty)
        ELSE /\ Ignore = Literal.Debian
             /\ DistroID = "Debian"
             /\ DistroTitle = OriginalPretty

(***************************************************************************)
(* C12, amended: the new pretty name is "Rasp" followed by the original    *)
(* pretty name without its first two characters ("Debian GNU/Linux 12      *)
(* x86_64" becomes "Raspbian GNU/Linux 12 x86_64").                        *)
(***************************************************************************)
C12_RaspbianOverride ==
    (Identified /\ locals.OSReleaseID = Literal.Debian) =>
        IF IsRaspberryPi
        THEN /\ Ignore = Literal.Raspbian
             /\ DistroID = "Raspbian"
             /\ DistroTitle = <<"R", "a", "s", "p">> \o Tail(Tail(OriginalPretty))
             /\ (locals.OSReleasePretty = Sample.pretty_Debian
                    /\ env.uname_m = <<Sample.x86_64>>) =>
                    DistroTitle = Literal.Raspbian \o SliceFrom(Sample.pretty_Debian, 6)
                                  \o <<" ">> \o Sample.x86_64
        ELSE /\ Ignore = Literal.Debian
             /\ DistroID = "Debian"
             /\ DistroTitle = OriginalPretty

C12_Witness ==
    /\ Identified
    /\ locals.OSReleaseID = Literal.Debian
    /\ locals.OSReleasePretty = Sample.pretty_Debian
    /\ env.device_tree_model = Present(Sample.model_Pi4)
    /\ env.uname_m = <<Sample.x86_64>>
    /\ Ignore = Literal.Raspbian
    /\ DistroTitle = Literal.Raspbian \o SliceFrom(Sample.pretty_Debian, 6)
                      \o <<" ">> \o Sample.x86_64

\* the architecture query succeeded: uname is there and printed something
ArchitectureKnown == "uname" \in env.installed /\ FirstLine(env.uname_m) # <<>>

(***************************************************************************)
(* C13: the architecture is appended to the pretty name after exactly one  *)
(* space if and only if the architecture query succeeded; otherwise the    *)
(* pretty name is returned with nothing appended, no trailing space.       *)
(***************************************************************************)
C13_ArchitectureAppended ==
    (Identified /\ Ignore = locals.OSReleaseID) =>
        DistroTitle = IF ArchitectureKnown
                      THEN locals.OSReleasePretty \o <<" ">> \o FirstLine(env.uname_m)
                      ELSE locals.OSReleasePretty

\* The positions of s that lie inside a sequence of the form
\* ESC '[' [digits (';' digits)*] letter.
EscapeCovered(s) ==
    LET IsParams(p) ==
            \/ p = <<>>
            \/ /\ \A k \in 1..Len(p) : p[k] \in nums \cup {";"}
               /\ p[1] \in nums
               /\ p[Len(p)] \in nums
               /\ \A k \in 1..(Len(p) - 1) : ~(p[k] = ";" /\ p[k + 1] = ";")
        IsSequence(i, j) ==
            /\ s[i] = ESC
            /\ j >= i + 2
            /\ s[i + 1] = "["
            /\ s[j] \in alphas
            /\ IsParams(SubSeq(s, i + 2, j - 1))
    IN  {k \in 1..Len(s) :
            \E i \in 1..k : \E j \in k..Len(s) : IsSequence(i, j)}

(***************************************************************************)
(* C14: ANSILen and ANSIljust return for every input string; a sequence    *)
(* introduced by ESC that does not match ESC '[' [digits (';' digits)*]    *)
(* letter is counted entirely as visible characters and adds nothing to    *)
(* the escape-character count.                                             *)
(***************************************************************************)
C14_MalformedCountedVisible ==
    LET s == Flatten(ansi.tokens)
        n == Cardinality(EscapeCovered(s))
    IN  /\ ansi.call = "ANSILen" =>
              /\ ansi.ret = <<Len(s) - n, n>>
              /\ (\A i \in 1..Len(ansi.tokens) : ansi.tokens[i] \in MalformedTokens) =>
                     ansi.ret = <<Len(s), 0>>
        /\ ansi.call = "ANSIljust" =>
              ansi.ret = s \o Rep(" ", ansi.arg + n - Len(s))

C14_Witness ==
    /\ ansi.call = "ANSILen"
    /\ ansi.tokens = << <<"a">>, <<ESC, "[", "?", "1", "h">>, <<ESC, "[", "1", "m">> >>
    /\ ansi.ret = <<6, 4>>

(***************************************************************************)
(* C15: the collectors run one at a time in the order of display, each     *)
(* once; the record of field k is in the log after collector k returned    *)
(* and before collector k+1 starts, so after the loop the log is the       *)
(* header line followed by one record per field in display order.          *)
(***************************************************************************)
C15_LogFollowsDisplay ==
    /\ pc \in {"Collect", "Crashed"} /\ attr >= 1 =>
          /\ attr \in 1..Len(display)
          /\ LogFile = <<"Archey Performance Log">> \o SubSeq(display, 1, attr - 1)
    /\ pc \in {"ColourBars", "Override", "Merge", "Write", "Done"} =>
          /\ attr = Len(display) + 1
          /\ LogFile = <<"Archey Performance Log">> \o display

C15_Witness ==
    /\ pc = "Done"
    /\ Len(LogFile) = 17
    /\ LogFile[2] = "user"
    /\ LogFile[5] = "pimodel"
    /\ LogFile[17] = "disk"
    /\ Len(result) < 18

(***************************************************************************)
(* C16: every collector invocation appends zero or one line to result,     *)
(* and every field other than de, pimodel and disk appends exactly one.    *)
(***************************************************************************)
C16_OneLinePerField ==
    [][(pc = "Collect" /\ pc' # "Crashed") =>
         /\ Len(result') - Len(result) \in {0, 1}
         /\ display[attr] \notin {"de", "pimodel", "disk"} =>
                Len(result') = Len(result) + 1]_vars

(***************************************************************************)
(* C17: no collector raises: with tools missing or variables unset every   *)
(* collector returns, and the run reaches the last field and writes the    *)
(* banner.                                                                 *)
(***************************************************************************)
C17_NoCollectorRaises ==
    ~(pc = "Crashed" /\ attr >= 1)

\* The lines the collector loop and the colour bars leave in result when
\* the program runs in environment e.
DataLines(e) ==
    LET id == IdentifyOS(e, "Unknown")
        RECURSIVE Run(_, _, _)
        Run(k, GT, acc) ==
            IF k > Len(display) THEN acc \o ColourBars
            ELSE LET r == Collector(display[k], e, id.OSEnumID, id.OSReleasePretty, GT)
                 IN  Run(k + 1, r.GlobalTerminal, acc \o r.lines)
    IN  Run(1, Literal.Unset, <<>>)

(***************************************************************************)
(* C18: a command-line argument changes only which logo is selected: it    *)
(* is applied after the collectors, so label colour, collector variants    *)
(* and data lines are those of a run without the argument; an argument     *)
(* that is no key of the identity table selects the fallback logo.         *)
(***************************************************************************)
C18_ArgumentSelectsLogoOnly ==
    pc \in {"Merge", "Write", "Done"} =>
        LET Plain == DataLines([env EXCEPT !.argv = Absent])
            Selected == IF ~Exists(env.argv) THEN EnumID(Ignore)
                        ELSE IF Content(env.argv) \in DOMAIN DistroEnumDict
                        THEN DistroEnumDict[Content(env.argv)]
                        ELSE "Unknown"
            Logo == DefineDistroLogo(Selected)
        IN  /\ pc = "Merge" => result = Plain
            /\ SubSeq(result, 1, Len(Plain)) = Plain
            /\ \A i \in (Len(Plain) + 1)..Len(result) : result[i] = <<>>
            /\ (Exists(env.argv) /\ Content(env.argv) \notin DOMAIN DistroEnumDict) =>
                   Len(Logo) = 29
            /\ (pc # "Merge" /\ TerminalColumns >= 70) =>
                   /\ Len(LogoOutputList) >= Len(Logo)
                   /\ SubSeq(LogoOutputList, 1, Len(Logo)) = Logo
                   /\ \A i \in 1..Len(Plain) :
                          SliceFrom(ArcheyOutputList[i], -Len(Plain[i])) = Plain[i]
                             \/ Plain[i] = <<>>
            /\ (pc # "Merge" /\ TerminalColumns < 70) => ArcheyOutputList = Plain

C18_Witness ==
    /\ pc = "Done"
    /\ env.argv = Present(Sample.Bogus)
    /\ Ignore = Literal.Raspbian
    /\ TerminalColumns >= 70
    /\ Len(LogoOutputList) = 29
    /\ result[1] = output("Raspbian", Literal.key_User, Sample.user)

(***************************************************************************)
(* C19: with or without a command-line argument the process-wide identity  *)
(* is written once, by IdentifyOS before the first collector, and never    *)
(* modified afterwards.  This is the claim as stated.                      *)
(***************************************************************************)
C19_IdentityWrittenOnce ==
    [][pc # "IdentifyOS" => DistroID' = DistroID]_vars

(***************************************************************************)
(* C19, amended: the identity is written by IdentifyOS before the first    *)
(* collector and is not modified while the collectors run; in a run with   *)
(* a command-line argument it is written a second time, by the logo        *)
(* override after the colour bars, and in a run without one never again.   *)
(***************************************************************************)
C19_IdentityWrittenByOverride ==
    [][/\ pc \notin {"IdentifyOS", "Override"} => DistroID' = DistroID
       /\ pc = "Override" =>
             DistroID' = IF ~Exists(env.argv) THEN DistroID
                         ELSE IF Content(env.argv) \in DOMAIN DistroEnumDict
                         THEN DistroEnumDict[Content(env.argv)]
                         ELSE "Unknown"]_vars

C19_Witness ==
    /\ pc = "Merge"
    /\ env.argv = Present(Sample.Arch)
    /\ Ignore = Literal.Kubuntu
    /\ DistroID = "Arch"

(***************************************************************************)
(* C20: during collection result only grows at its end: the previous       *)
(* contents are a prefix of the new ones, the lines appear in the order    *)
(* of display, and the two colour-bar lines come after the last field's    *)
(* line.                                                                   *)
(***************************************************************************)
C20_ResultGrowsByAppends ==
    [][LET label == [user |-> Literal.key_User, hostname |-> Literal.key_Hostname,
                     distro |-> Literal.key_OS, pimodel |-> Literal.key_PiModel,
                     kernel |-> Literal.key_Kernel, uptime |-> Literal.key_Uptime,
                     wm |-> Literal.key_WindowManager, de |-> Literal.key_DesktopEnvironment,
                     sh |-> Literal.key_Shell, term |-> Literal.key_Terminal,
                     packages |-> Literal.key_Packages, resolution |-> Literal.key_Resolution,
                     gpu |-> Literal.key_GPU, cpu |-> Literal.key_CPU,
                     ram |-> Literal.key_RAM, disk |-> Literal.key_Disk]
       IN  /\ pc \in {"IdentifyOS", "InitLog", "TermSize"} => result' = <<>>
           /\ pc = "Collect" =>
                 /\ Len(result') >= Len(result)
                 /\ SubSeq(result', 1, Len(result)) = result
                 /\ \A i \in (Len(result) + 1)..Len(result') :
                        Contains(result'[i], label[display[attr]] \o <<":">> \o clear)
           /\ pc = "ColourBars" =>
                 /\ attr = Len(display) + 1
                 /\ Len(result') = Len(result) + 2
                 /\ SubSeq(result', 1, Len(result)) = result
                 /\ \A i \in (Len(result) + 1)..Len(result') :
                        /\ SubSeq(result'[i], Len(result'[i]) - Len(clear) + 1,
                                  Len(result'[i])) = clear
                        /\ ANSILen(result'[i])[1] = 35]_vars

C20_Witness ==
    /\ pc = "Override"
    /\ Len(result) = 17
    /\ Contains(result[1], Literal.key_User)
    /\ Contains(result[15], Literal.key_Disk)
    /\ result[16] = ColourBars[1]
    /\ result[17] = ColourBars[2]

(***************************************************************************)
(* C21: the layout reads result without changing it: after the merge and   *)
(* the writing, result holds exactly the lines it held when the collector  *)
(* loop and the colour bars finished, for every logo height and terminal   *)
(* width.  This is the claim as stated.                                    *)
(***************************************************************************)
C21_ResultReadOnly ==
    [][(pc \in {"Override", "Merge", "Write"}) => (result' = result)]_vars

(***************************************************************************)
(* C21, amended: when the logo is shown and has more lines than result,    *)
(* the merge extends result with one empty string per missing line;        *)
(* otherwise the merge leaves result as it was.  Writing never changes it. *)
(***************************************************************************)
C21_ResultPaddedByMerge ==
    [][/\ pc \in {"Override", "Write"} => result' = result
       /\ pc = "Merge" =>
             LET L == Len(DefineDistroLogo(DistroID))
                 D == Len(result)
             IN  IF TerminalColumns >= 70 /\ L > D
                 THEN /\ Len(result') = L
                      /\ SubSeq(result', 1, D) = result
                      /\ \A i \in (D + 1)..L : result'[i] = <<>>
                 ELSE (result' = result)]_vars

C21_Witness ==
    /\ pc = "Done"
    /\ TerminalColumns >= 70
    /\ Len(result) = Len(DefineDistroLogo(DistroID))
    /\ Len(result) > Len(DataLines(env))
    /\ result[Len(result)] = <<>>

(***************************************************************************)
(* C22: every identity, Unknown included, has one logo and one label       *)
(* colour: DefineDistroLogo returns a non-empty list for every member of   *)
(* Distro (the generic art for a member without a branch of its own), and  *)
(* output uses the colour-map entry of the identity, or the one default    *)
(* colour when there is none, so all labels of a run carry one colour.     *)
(***************************************************************************)
C22_OneLogoOneColour ==
    /\ \A d \in Distro :
          /\ DefineDistroLogo(d) # <<>>
          /\ d = "Unknown" => Len(DefineDistroLogo(d)) = 29
          /\ d \in DOMAIN DistroColourDict \/ d = "Unknown"
    /\ pc \in {"Collect", "ColourBars", "Override"} =>
          LET Colour == IF DistroID \in DOMAIN DistroColourDict
                        THEN DistroColourDict[DistroID] ELSE redB
              Fields == IF pc = "Collect" THEN Len(result) ELSE Len(result) - 2
          IN  \A i \in 1..Fields :
                 /\ Len(result[i]) > Len(Colour)
                 /\ SubSeq(result[i], 1, Len(Colour)) = Colour
                 /\ result[i][Len(Colour) + 1] \notin {ESC, "["}

C22_Witness ==
    /\ pc = "Collect"
    /\ DistroID = "Unknown"
    /\ Len(result) > 2
    /\ DistroID \notin DOMAIN DistroColourDict
    /\ SubSeq(result[1], 1, Len(redB)) = redB

\* a run whose identity has a colour-map entry
C22_WitnessMapped ==
    /\ pc = "Override"
    /\ DistroID = "MacOS"
    /\ SubSeq(result[1], 1, Len(yellowN)) = yellowN

(***************************************************************************)
(* C23: display holds no field name twice and every name in it is the      *)
(* name of one collector function <field>_display, so the lookup in the    *)
(* loop finds a collector for every configured field.                      *)
(***************************************************************************)
C23_DisplayResolves ==
    LET Collectors == {"ram", "distro", "kernel", "user", "hostname", "cpu", "uptime",
                       "de", "wm", "sh", "term", "packages", "disk", "resolution",
                       "gpu", "pimodel"}
    IN  /\ \A i, j \in 1..Len(display) : display[i] = display[j] => i = j
        /\ \A i \in 1..Len(display) : display[i] \in Collectors
        /\ pc = "Collect" =>
              /\ attr \in 1..Len(display)
              /\ display[attr] \in Collectors
              /\ \A k \in 2..Len(LogFile) : LogFile[k] # display[attr]

C23_Witness ==
    /\ pc = "Collect"
    /\ attr = Len(display)
    /\ Len(LogFile) = Len(display)
    /\ display[attr] = "disk"


(***************************************************************************)
(* C25: the absence of a file the program reads (/etc/os-release, the      *)
(* device-tree model file, SystemVersion.plist) is never fatal: on every   *)
(* kernel family, Darwin without SystemVersion.plist included,             *)
(* identification does not raise, the Pi-model collector does not raise,   *)
(* and a Linux host with neither /etc/os-release nor lsb_release is titled *)
(* "Undetermined" followed by the architecture.                            *)
(***************************************************************************)
C25_MissingFilesNotFatal ==
    /\ ~(pc = "Crashed" /\ attr = 0)
    /\ ~(pc = "Crashed" /\ attr \in 1..Len(display) /\ display[attr] = "pimodel")
    /\ ( /\ pc \notin {"IdentifyOS", "Crashed"}
         /\ KernelName = Literal.Linux
         /\ ~Exists(env.os_release)
         /\ ~CheckCommandInstalled(env, "lsb_release") )
       => /\ Len(DistroTitle) >= Len(Literal.Undetermined)
          /\ SubSeq(DistroTitle, 1, Len(Literal.Undetermined)) = Literal.Undetermined

\* The one fatal absence: identification raises only on Darwin without the
\* system-version file; the absence of the other two files is survived.
C25_OnlySystemVersionFatal ==
    /\ (pc = "Crashed" /\ attr = 0) <=>
          (pc # "IdentifyOS" /\ KernelName = Literal.Darwin /\ ~Exists(env.SystemVersion))
    /\ ~(pc = "Crashed" /\ attr \in 1..Len(display) /\ display[attr] = "pimodel")

(***************************************************************************)
(* C26: once kernel_display has run, the result sequence holds no Kernel   *)
(* line when the identity is FreeBSD and exactly one Kernel line for every *)
(* other identity.                                                         *)
(***************************************************************************)
C26_NoKernelLineOnFreeBSD ==
    LET KernelLines == {i \in 1..Len(result) :
                          Contains(result[i], Literal.key_Kernel \o <<":">> \o clear)}
    IN  ( /\ pc \in {"Collect", "ColourBars", "Override"}
          /\ \E i \in 1..Len(LogFile) : LogFile[i] = "kernel" )
        => Cardinality(KernelLines) = IF DistroID = "FreeBSD" THEN 0 ELSE 1

\* What the code does: one Kernel line on every identity, FreeBSD included.
C26_KernelLineOnEveryIdentity ==
    LET KernelLines == {i \in 1..Len(result) :
                          Contains(result[i], Literal.key_Kernel \o <<":">> \o clear)}
    IN  ( /\ pc \in {"Collect", "ColourBars", "Override"}
          /\ \E i \in 1..Len(LogFile) : LogFile[i] = "kernel" )
        => Cardinality(KernelLines) = 1

C27_WitnessFreeBSD ==
    /\ pc = "ColourBars"
    /\ DistroID = "FreeBSD"
    /\ DesktopEvironmentID(env, DistroID) = Literal.None
    /\ \A i \in 1..Len(result) :
          /\ ~Contains(result[i], Literal.key_Disk \o <<":">> \o clear)
          /\ ~Contains(result[i], Literal.key_DesktopEnvironment \o <<":">> \o clear)

\* a Raspberry Pi: the Pi Model line and the Disk line are present
C27_WitnessRaspberry ==
    /\ pc = "ColourBars"
    /\ Exists(env.device_tree_model)
    /\ \E i \in 1..Len(result) : Contains(result[i], Literal.key_PiModel \o <<":">> \o clear)
    /\ \E i \in 1..Len(result) : Contains(result[i], Literal.key_Disk \o <<":">> \o clear)

(***************************************************************************)
(* C28: the terminal name is probed at most once per run.  A collector     *)
(* step probes when it calls IdentifyTerminal (term always, wm and         *)
(* resolution unless the tty is the main console) and IdentifyTerminal     *)
(* goes to the process table.  No step probes after an earlier collector   *)
(* of the run has called IdentifyTerminal, and every call returns the name *)
(* the first call stored, whatever that name is.                           *)
(***************************************************************************)
C28_TerminalProbedOnce ==
    [][LET Calls(EachAttribute) ==
               \/ EachAttribute = "term"
               \/ /\ EachAttribute \in {"wm", "resolution"}
                  /\ TTYID(env) \notin {Literal.dev_tty1, Literal.dev_ttyv0}
           CalledBefore == \E i \in 1..Len(LogFile) : Calls(LogFile[i])
           Probes == GlobalTerminal = Literal.Unset
       IN  (pc = "Collect" /\ Calls(display[attr]) /\ CalledBefore) =>
             /\ ~Probes
             /\ IdentifyTerminal(env, GlobalTerminal).value = GlobalTerminal
             /\ pc' # "Crashed" => GlobalTerminal' = GlobalTerminal
      ]_vars

\* The same, for every terminal program that is not named like the sentinel.
C28_ProbedOnceUnlessNamedUnset ==
    [][LET Calls(EachAttribute) ==
               \/ EachAttribute = "term"
               \/ /\ EachAttribute \in {"wm", "resolution"}
                  /\ TTYID(env) \notin {Literal.dev_tty1, Literal.dev_ttyv0}
           CalledBefore == \E i \in 1..Len(LogFile) : Calls(LogFile[i])
       IN  (pc = "Collect" /\ Calls(display[attr]) /\ CalledBefore
              /\ env.terminal # Literal.Unset) =>
             /\ GlobalTerminal = env.terminal
             /\ GlobalTerminal # Literal.Unset
             /\ IdentifyTerminal(env, GlobalTerminal).value = GlobalTerminal
             /\ pc' # "Crashed" => GlobalTerminal' = GlobalTerminal
      ]_vars

(***************************************************************************)
(* C29: the Hostname line shows the host name with every occurrence of the *)
(* literal text ".local" removed, and a host name that does not contain    *)
(* ".local" unchanged: "mybox.local" is shown as "mybox" and "mylocalhost" *)
(* as "mylocalhost".                                                       *)
(***************************************************************************)
C29_DotLocalRemoved ==
    LET hostname == GetCommandOutput(env, "uname", env.uname_n)
        DotLocal == <<".">> \o Literal.local
        RECURSIVE Removed(_)
        Removed(s) ==
            IF s = <<>> THEN <<>>
            ELSE IF Len(s) >= 6 /\ SubSeq(s, 1, 6) = DotLocal
                 THEN Removed(SubSeq(s, 7, Len(s)))
                 ELSE <<Head(s)>> \o Removed(Tail(s))
    IN  (pc = "Collect" /\ attr >= 3) =>
          /\ Len(result) >= 2
          /\ result[2] = output(DistroID, Literal.key_Hostname, Removed(hostname))
          /\ ~Contains(hostname, DotLocal) =>
                result[2] = output(DistroID, Literal.key_Hostname, hostname)

\* What the code shows: "mybox.local" as "mybox " and "mylocalhost" as "m host".
C29_AnyCharacterBeforeLocalBlanked ==
    LET hostname == GetCommandOutput(env, "uname", env.uname_n)
    IN  (pc = "Collect" /\ attr >= 3 /\ Len(result) >= 2) =>
          /\ hostname = Sample.host_local =>
                result[2] = output(DistroID, Literal.key_Hostname, <<"m","y","b","o","x"," ">>)
          /\ hostname = Sample.host_plain =>
                result[2] = output(DistroID, Literal.key_Hostname, <<"m"," ","h","o","s","t">>)
          /\ hostname \in {Sample.host_local, Sample.host_plain}

(***************************************************************************)
(* C30: every identity other than Unknown has a key in the identity table, *)
(* and every key that no dedicated branch produces (MacOS comes from the   *)
(* Darwin branch, Kubuntu and Raspbian from the overrides) is the          *)
(* capitalized form of some os-release ID.  capitalize is idempotent, so   *)
(* a key k is the capitalized form of some ID exactly when                 *)
(* capitalize(k) = k.  A host whose /etc/os-release holds the ID written   *)
(* like such a key in lower case is given that key's identity.             *)
(***************************************************************************)
C30_EveryIdentityReachable ==
    /\ {DistroEnumDict[k] : k \in DOMAIN DistroEnumDict} = Distro \ {"Unknown"}
    /\ \A k \in DOMAIN DistroEnumDict :
          DistroEnumDict[k] \notin {"MacOS", "Kubuntu", "Raspbian"} => capitalize(k) = k
    /\ ( /\ Identified
         /\ KernelName \in {Literal.Linux, Literal.FreeBSD}
         /\ Exists(env.os_release)
         /\ Exists(Content(env.os_release).ID)
         /\ Content(Content(env.os_release).ID) = Sample.os_manjaro_arm )
       => DistroID = "ManjaroARM"

\* What the code does: the keys 'CrunchBang' and 'Manjaro-ARM' are the only
\* ones capitalize cannot produce, and no host identified through
\* /etc/os-release is CrunchBang or ManjaroARM.
C30_MixedCaseKeysDead ==
    /\ {DistroEnumDict[k] : k \in {j \in DOMAIN DistroEnumDict : capitalize(j) # j}}
         = {"CrunchBang", "ManjaroARM", "MacOS"}
    /\ (Identified /\ KernelName \in {Literal.Linux, Literal.FreeBSD}
          /\ Exists(env.os_release))
       => DistroID \notin {"CrunchBang", "ManjaroARM"}

=============================================================================
